---- MODULE Spec2Model ----
(***************************************************************************)
(* A model of the pEYES event matching and scoring core:                   *)
(*   src/src/pEYES/_DataModels/Event.py   (BaseEvent and its subclasses)   *)
(*   src/src/pEYES/event_matching.py      (match, match_multiple,          *)
(*                                         precision_recall_f1, ...)       *)
(* Python floats are modelled as fractions <<n, d>> with d > 0, and the    *)
(* not-a-number value as <<0, 0>>; comparisons follow IEEE-754 (every      *)
(* ordered comparison with not-a-number is false).  Python strings are     *)
(* modelled as sequences of one-character strings.                         *)
(***************************************************************************)
EXTENDS Integers, Sequences, FiniteSets, TLC

VARIABLES
    EVENT_MAPPING,  \* cnfg.EVENT_MAPPING: label -> [min_duration, max_duration]
    setter,         \* the last set_min_duration / set_max_duration call
    args,           \* the arguments of the call under way
    out             \* what the call under way has produced so far

vars == <<EVENT_MAPPING, setter, args, out>>

(***************************************************************************)
(* Bounds of the model.                                                    *)
(***************************************************************************)
MaxDur == 2         \* durations offered to the setters are -1 .. MaxDur and nan

MaxSeqLen == 2      \* longest ground-truth or prediction sequence offered to match

MaxKwargs == 2      \* most keyword arguments offered in **match_kwargs

MaxMultiLen == 1    \* longest sequence offered to match_multiple

MaxStatLen == 3     \* longest sequence offered to precision_recall_f1

MaxCount == 4       \* largest count p, pp, tp tried on the rate formulas

MaxTime == 2        \* the samples of the events compared pairwise lie in 0 .. MaxTime

MaxPairs == 2       \* most matched pairs in a mapping offered to calculate

MaxSamples == 3     \* most samples of an event offered to the constructor

MaxAddr == 2        \* the addresses a temporary float object can be allocated at are 1 .. MaxAddr

(***************************************************************************)
(* Python floats.                                                          *)
(***************************************************************************)
NaN == <<0, 0>>

F(n) == <<n, 1>>

IsNaN(a) == a[2] = 0

FLt(a, b) == ~IsNaN(a) /\ ~IsNaN(b) /\ a[1] * b[2] < b[1] * a[2]

FGt(a, b) == FLt(b, a)

FLe(a, b) == ~IsNaN(a) /\ ~IsNaN(b) /\ a[1] * b[2] <= b[1] * a[2]

GCD(a, b) ==
    LET RECURSIVE Euclid(_, _)
        Euclid(x, y) == IF y = 0 THEN x ELSE Euclid(y, x % y)
    IN Euclid(IF a < 0 THEN 0 - a ELSE a, IF b < 0 THEN 0 - b ELSE b)

\* the float n / d for d > 0, in lowest terms
Frac(n, d) == <<n \div GCD(n, d), d \div GCD(n, d)>>

FAdd(a, b) ==
    IF IsNaN(a) \/ IsNaN(b) THEN NaN ELSE Frac(a[1] * b[2] + b[1] * a[2], a[2] * b[2])

FSub(a, b) ==
    IF IsNaN(a) \/ IsNaN(b) THEN NaN ELSE Frac(a[1] * b[2] - b[1] * a[2], a[2] * b[2])

FMul(a, b) == IF IsNaN(a) \/ IsNaN(b) THEN NaN ELSE Frac(a[1] * b[1], a[2] * b[2])

\* a / b on Python numbers: a zero divisor raises, not-a-number propagates
Div(a, b) ==
    IF ~IsNaN(b) /\ b[1] = 0 THEN [raised |-> "ZeroDivisionError", value |-> NaN]
    ELSE IF IsNaN(a) \/ IsNaN(b) THEN [raised |-> "none", value |-> NaN]
    ELSE [raised |-> "none",
          value |-> IF b[1] > 0 THEN Frac(a[1] * b[2], a[2] * b[1])
                    ELSE Frac(0 - a[1] * b[2], 0 - a[2] * b[1])]

(***************************************************************************)
(* EventLabelEnum and the per-label duration configuration.                *)
(***************************************************************************)
EventLabelEnum == {"UNDEFINED", "FIXATION", "SACCADE", "PSO", "SMOOTH_PURSUIT", "BLINK"}

\* the labels that have an event class (FixationEvent ... BlinkEvent)
EventClasses == {"FIXATION", "SACCADE", "PSO", "SMOOTH_PURSUIT", "BLINK"}

\* the labels whose configuration the model tracks
ConfigLabels == {"FIXATION", "SACCADE"}

DurationInputs == {F(n) : n \in -1 .. MaxDur} \cup {NaN}

\* cnfg.EVENT_MAPPING as the claims assume it at start: 0 <= min <= max
ValidBounds ==
    {b \in [min_duration : {F(n) : n \in 0 .. MaxDur}, max_duration : {F(n) : n \in 0 .. MaxDur}] :
        FLe(b.min_duration, b.max_duration)}

NoSetter == [op |-> "none", label |-> "UNDEFINED", value |-> NaN, raised |-> "none",
             before |-> [min_duration |-> NaN, max_duration |-> NaN]]

NoArgs == [op |-> "none"]

NoOut == [pc |-> "idle"]

(***************************************************************************)
(* BaseEvent.set_min_duration / set_max_duration.                          *)
(***************************************************************************)
\* faulty variant: the check for a negative bound is missing
SetMinRaisesNoSignCheck(cfg, cls, min_duration) ==
    IF FGt(min_duration, cfg[cls].max_duration) THEN "ValueError" ELSE "none"

\* the exception set_min_duration(min_duration) raises on class cls, or "none"
SetMinRaises(cfg, cls, min_duration) ==
    IF FLt(min_duration, F(0)) THEN "ValueError"
    ELSE IF FGt(min_duration, cfg[cls].max_duration) THEN "ValueError"
    ELSE "none"

\* the exception set_max_duration(max_duration) raises on class cls, or "none"
SetMaxRaises(cfg, cls, max_duration) ==
    IF FLt(max_duration, F(0)) THEN "ValueError"
    ELSE IF FLt(max_duration, cfg[cls].min_duration) THEN "ValueError"
    ELSE "none"

\* faulty variant: the new lower bound is written to every label
set_min_duration_every_label(cls, min_duration) ==
    LET raised == SetMinRaises(EVENT_MAPPING, cls, min_duration) IN
    /\ EVENT_MAPPING' = IF raised = "none"
                        THEN [l \in DOMAIN EVENT_MAPPING |->
                                 [EVENT_MAPPING[l] EXCEPT !.min_duration = min_duration]]
                        ELSE EVENT_MAPPING
    /\ setter' = [op |-> "set_min_duration", label |-> cls, value |-> min_duration,
                  raised |-> raised, before |-> EVENT_MAPPING[cls]]
    /\ UNCHANGED <<args, out>>

get_min_duration(cfg, cls) == cfg[cls].min_duration

get_max_duration(cfg, cls) == cfg[cls].max_duration

set_min_duration(cls, min_duration) ==
    LET raised == SetMinRaises(EVENT_MAPPING, cls, min_duration) IN
    /\ EVENT_MAPPING' = IF raised = "none"
                        THEN [EVENT_MAPPING EXCEPT ![cls].min_duration = min_duration]
                        ELSE EVENT_MAPPING
    /\ setter' = [op |-> "set_min_duration", label |-> cls, value |-> min_duration,
                  raised |-> raised, before |-> EVENT_MAPPING[cls]]
    /\ UNCHANGED <<args, out>>

set_max_duration(cls, max_duration) ==
    LET raised == SetMaxRaises(EVENT_MAPPING, cls, max_duration) IN
    /\ EVENT_MAPPING' = IF raised = "none"
                        THEN [EVENT_MAPPING EXCEPT ![cls].max_duration = max_duration]
                        ELSE EVENT_MAPPING
    /\ setter' = [op |-> "set_max_duration", label |-> cls, value |-> max_duration,
                  raised |-> raised, before |-> EVENT_MAPPING[cls]]
    /\ UNCHANGED <<args, out>>

(***************************************************************************)
(* The configuration as a state machine: any sequence of setter calls.     *)
(***************************************************************************)
InitConfig ==
    /\ EVENT_MAPPING \in [ConfigLabels -> ValidBounds]
    /\ setter = NoSetter
    /\ args = NoArgs
    /\ out = NoOut

NextConfig ==
    \/ \E cls \in ConfigLabels, v \in DurationInputs : set_min_duration(cls, v)
    \/ \E cls \in ConfigLabels, v \in DurationInputs : set_max_duration(cls, v)

SpecConfig == InitConfig /\ [][NextConfig]_vars

(***************************************************************************)
(* C1.  Starting from a configuration with 0 <= min_duration <=            *)
(* max_duration for every label, every label still satisfies               *)
(* 0 <= min_duration <= max_duration after any sequence of setter calls.   *)
(***************************************************************************)
C1_BoundsOrdered ==
    \A cls \in ConfigLabels :
        /\ FLe(F(0), EVENT_MAPPING[cls].min_duration)
        /\ FLe(EVENT_MAPPING[cls].min_duration, EVENT_MAPPING[cls].max_duration)

\* a call the claim asks to be rejected: negative, or inverting [min, max]
SetterMustFail ==
    \/ FLt(setter.value, F(0))
    \/ /\ setter.op = "set_min_duration"
       /\ FGt(setter.value, setter.before.max_duration)
    \/ /\ setter.op = "set_max_duration"
       /\ FGt(setter.before.min_duration, setter.value)

(***************************************************************************)
(* C2 (as stated).  A setter call with a negative value, or one that would *)
(* make min_duration > max_duration, fails with a ValidationError and      *)
(* leaves both bounds of the label as they were.                           *)
(***************************************************************************)
C2_FailsWithValidationError ==
    (setter.op # "none" /\ SetterMustFail) =>
        /\ setter.raised = "ValidationError"
        /\ EVENT_MAPPING[setter.label] = setter.before

(***************************************************************************)
(* C2 (amended).  Such a call fails with a ValueError, raised before any   *)
(* assignment, and leaves both bounds of the label as they were.           *)
(***************************************************************************)
C2_FailsWithValueError ==
    (setter.op # "none" /\ SetterMustFail) =>
        /\ setter.raised = "ValueError"
        /\ EVENT_MAPPING[setter.label] = setter.before

C2_Witness ==
    /\ setter.op = "set_min_duration"
    /\ FLt(setter.value, F(0))
    /\ setter.raised = "ValueError"
    /\ EVENT_MAPPING[setter.label] = setter.before

(***************************************************************************)
(* Python strings: str.lower, str.replace, str.strip and the `in` test.    *)
(***************************************************************************)
UpperLetters == <<"A", "B", "C", "D", "E", "F", "G", "H", "I", "J", "K", "L", "M",
                  "N", "O", "P", "Q", "R", "S", "T", "U", "V", "W", "X", "Y", "Z">>

LowerLetters == <<"a", "b", "c", "d", "e", "f", "g", "h", "i", "j", "k", "l", "m",
                  "n", "o", "p", "q", "r", "s", "t", "u", "v", "w", "x", "y", "z">>

LowerChar(c) ==
    IF \E i \in 1 .. Len(UpperLetters) : UpperLetters[i] = c
    THEN LowerLetters[CHOOSE i \in 1 .. Len(UpperLetters) : UpperLetters[i] = c]
    ELSE c

UpperChar(c) ==
    IF \E i \in 1 .. Len(LowerLetters) : LowerLetters[i] = c
    THEN UpperLetters[CHOOSE i \in 1 .. Len(LowerLetters) : LowerLetters[i] = c]
    ELSE c

\* s.lower()
Lower(s) == [i \in 1 .. Len(s) |-> LowerChar(s[i])]

\* s.upper()
Upper(s) == [i \in 1 .. Len(s) |-> UpperChar(s[i])]

\* s.replace(a, b) for one-character a and b
Replace(s, a, b) == [i \in 1 .. Len(s) |-> IF s[i] = a THEN b ELSE s[i]]

\* the characters str.strip() removes (of those the model writes)
Whitespace == {" ", "\t"}

\* s.strip(): leading and trailing whitespace removed
Strip(s) ==
    LET inked == {i \in 1 .. Len(s) : s[i] \notin Whitespace} IN
    IF inked = {} THEN <<>>
    ELSE SubSeq(s, CHOOSE i \in inked : \A j \in inked : i <= j,
                   CHOOSE i \in inked : \A j \in inked : j <= i)

\* sub in s
Contains(s, sub) ==
    \E i \in 0 .. Len(s) - Len(sub) : SubSeq(s, i + 1, i + Len(sub)) = sub

SP == <<" ">>

S_first == <<"f", "i", "r", "s", "t">>

S_last == <<"l", "a", "s", "t">>

S_max == <<"m", "a", "x">>

S_longest == <<"l", "o", "n", "g", "e", "s", "t">>

S_overlap == <<"o", "v", "e", "r", "l", "a", "p">>

S_iou == <<"i", "o", "u">>

S_intersection == <<"i", "n", "t", "e", "r", "s", "e", "c", "t", "i", "o", "n">>

S_over == <<"o", "v", "e", "r">>

S_union == <<"u", "n", "i", "o", "n">>

S_onset == <<"o", "n", "s", "e", "t">>

S_offset == <<"o", "f", "f", "s", "e", "t">>

S_difference == <<"d", "i", "f", "f", "e", "r", "e", "n", "c", "e">>

S_max_onset_difference == <<"m", "a", "x", "_", "o", "n", "s", "e", "t", "_">> \o S_difference

S_window == <<"w", "i", "n", "d", "o", "w">>

S_based == <<"b", "a", "s", "e", "d">>

S_l2 == <<"l", "2">>

S_timing == <<"t", "i", "m", "i", "n", "g">>

S_norm == <<"n", "o", "r", "m">>

S_generic == <<"g", "e", "n", "e", "r", "i", "c">>

S_nearest == <<"n", "e", "a", "r", "e", "s", "t">>

(***************************************************************************)
(* Python values that occur as keyword arguments: bool, int and None, with *)
(* their truth value, the `or` operator and dict.pop.                      *)
(***************************************************************************)
PyBool(b) == [t |-> "bool", v |-> IF b THEN 1 ELSE 0]

PyInt(n) == [t |-> "int", v |-> n]

PyNone == [t |-> "NoneType", v |-> 0]

Truthy(x) == x.t # "NoneType" /\ x.v # 0

\* d.pop(key, default): the value popped and the dict that is left
DictPop(d, key, default) ==
    [value |-> IF key \in DOMAIN d THEN d[key] ELSE default,
     rest  |-> [k \in DOMAIN d \ {key} |-> d[k]]]

\* d[k] = v on an insertion-ordered dict held as a sequence of <<key, value>>
DictSet(d, k, v) ==
    IF \E i \in 1 .. Len(d) : d[i][1] = k
    THEN [i \in 1 .. Len(d) |-> IF d[i][1] = k THEN <<k, v>> ELSE d[i]]
    ELSE Append(d, <<k, v>>)

(***************************************************************************)
(* Events, as far as matching reads them: the label and the sorted time    *)
(* samples.                                                                *)
(***************************************************************************)
start_time(e) == e.t[1]

end_time(e) == e.t[Len(e.t)]

duration(e) == end_time(e) - start_time(e)

Max2(a, b) == IF a >= b THEN a ELSE b

Min2(a, b) == IF a <= b THEN a ELSE b

Abs(a) == IF a >= 0 THEN a ELSE -a

\* time_overlap(self, other, normalize=False)
TotalOverlap(self, other) ==
    Max2(0, Min2(end_time(self), end_time(other)) - Max2(start_time(self), start_time(other)))

(***************************************************************************)
(* BaseEvent.__init__: the sample arrays t, x, y, pupil and the two        *)
(* calibration scalars.  Timestamps are integers, the other samples and    *)
(* the scalars are floats.  An array argument is either omitted (None) or  *)
(* given.                                                                  *)
(***************************************************************************)
Omitted == [given |-> FALSE, a |-> <<>>]

Given(a) == [given |-> TRUE, a |-> a]

\* np.full_like(t, np.nan, dtype=float)
full_like(t) == [i \in 1 .. Len(t) |-> NaN]

\* faulty variant: the assert on the array lengths is missing
InitRaisesNoLengthCheck(t, x, y, pupil, viewer_distance, pixel_size) ==
    IF ~(IsNaN(viewer_distance) \/ FGt(viewer_distance, F(0))) THEN "AssertionError"
    ELSE IF ~(IsNaN(pixel_size) \/ FGt(pixel_size, F(0))) THEN "AssertionError"
    ELSE "none"

\* lines 26-31: the exception the constructor raises, or "none"
InitRaises(t, x, y, pupil, viewer_distance, pixel_size) ==
    LET _x     == IF x.given THEN x.a ELSE full_like(t)
        _y     == IF y.given THEN y.a ELSE full_like(t)
        _pupil == IF pupil.given THEN pupil.a ELSE full_like(t)
    IN IF ~(Len(t) = Len(_x) /\ Len(_x) = Len(_y) /\ Len(_y) = Len(_pupil))
       THEN "AssertionError"
       ELSE IF ~(IsNaN(viewer_distance) \/ FGt(viewer_distance, F(0))) THEN "AssertionError"
       ELSE IF ~(IsNaN(pixel_size) \/ FGt(pixel_size, F(0))) THEN "AssertionError"
       ELSE "none"

\* the results samples[:, 0].argsort() can have: the permutations that put t in
\* ascending order (the default sort kind is not stable, so equal timestamps may
\* come out in either order)
Argsorts(t) ==
    {p \in [1 .. Len(t) -> 1 .. Len(t)] :
        /\ \A i, j \in 1 .. Len(t) : p[i] = p[j] => i = j
        /\ \A i, j \in 1 .. Len(t) : i < j => t[p[i]] <= t[p[j]]}

\* faulty variant: only the time column is put in order
BaseEventTimeSortedOnly(label, t, x, y, pupil, viewer_distance, pixel_size, order) ==
    LET _x     == IF x.given THEN x.a ELSE full_like(t)
        _y     == IF y.given THEN y.a ELSE full_like(t)
        _pupil == IF pupil.given THEN pupil.a ELSE full_like(t)
    IN [label |-> label,
        t |-> [i \in 1 .. Len(t) |-> t[order[i]]],
        x |-> _x, y |-> _y, pupil |-> _pupil,
        viewer_distance |-> viewer_distance, pixel_size |-> pixel_size]

\* lines 26-39: the event a successful construction stores; order is the argsort
BaseEvent(label, t, x, y, pupil, viewer_distance, pixel_size, order) ==
    LET _x     == IF x.given THEN x.a ELSE full_like(t)
        _y     == IF y.given THEN y.a ELSE full_like(t)
        _pupil == IF pupil.given THEN pupil.a ELSE full_like(t)
    IN [label |-> label,
        t |-> [i \in 1 .. Len(t) |-> t[order[i]]],
        x |-> [i \in 1 .. Len(t) |-> _x[order[i]]],
        y |-> [i \in 1 .. Len(t) |-> _y[order[i]]],
        pupil |-> [i \in 1 .. Len(t) |-> _pupil[order[i]]],
        viewer_distance |-> viewer_distance, pixel_size |-> pixel_size]

\* an event of sorted timestamps t constructed with everything else left out
TimesOnly(label, t) ==
    BaseEvent(label, t, Omitted, Omitted, Omitted, NaN, NaN, [i \in 1 .. Len(t) |-> i])

(***************************************************************************)
(* match: normalisation of match_by, the cross-matching flag, the filter   *)
(* and the dispatch.                                                       *)
(***************************************************************************)
\* match_by.lower().replace("_", " ").replace("-", " ").strip()
NormalizeMatchBy(match_by) ==
    Strip(Replace(Replace(Lower(match_by), "_", " "), "-", " "))

\* ignore_events or set()
IgnoreSet(ignore_events) == IF ignore_events.is_none THEN {} ELSE ignore_events.labels

\* faulty variant: an explicit allow_xmatch=False lets neither alias decide
ResolveXmatchParamOnly(allow_xmatch, match_kwargs) ==
    [value |-> allow_xmatch,
     rest  |-> [k \in DOMAIN match_kwargs \ {"allow_cross_match"} |-> match_kwargs[k]]]

\* allow_xmatch or match_kwargs.pop("allow_xmatch", None)
\*              or match_kwargs.pop("allow_cross_match", False)
ResolveXmatch(allow_xmatch, match_kwargs) ==
    IF Truthy(allow_xmatch)
    THEN [value |-> allow_xmatch, rest |-> match_kwargs]
    ELSE LET first == DictPop(match_kwargs, "allow_xmatch", PyNone) IN
         IF Truthy(first.value)
         THEN first
         ELSE DictPop(first.rest, "allow_cross_match", PyBool(FALSE))

\* faulty variant: nothing is filtered
FilterIgnoredNothing(events, ignore) == events

\* [e for e in events if e.label not in ignore_events]
FilterIgnored(events, ignore) ==
    LET RECURSIVE Keep(_)
        Keep(es) ==
            IF es = <<>> THEN <<>>
            ELSE (IF Head(es).label \notin ignore THEN <<Head(es)>> ELSE <<>>) \o Keep(Tail(es))
    IN Keep(events)

\* the if-chain of match: the EventMatcher method a normalised name reaches
Strategy(match_by) ==
    IF match_by = S_first \/ match_by = S_first \o SP \o S_overlap THEN "first_overlap"
    ELSE IF match_by = S_last \/ match_by = S_last \o SP \o S_overlap THEN "last_overlap"
    ELSE IF match_by = S_max \/ match_by = S_max \o SP \o S_overlap THEN "max_overlap"
    ELSE IF Contains(match_by, S_longest) /\ Contains(match_by, S_overlap)
        THEN "longest_overlapping_event"
    ELSE IF match_by = S_iou \/ match_by = S_intersection \o SP \o S_over \o SP \o S_union
        THEN "iou"
    ELSE IF match_by = S_onset \/ match_by = S_onset \o SP \o S_difference
        THEN "onset_difference"
    ELSE IF match_by = S_offset \/ match_by = S_offset \o SP \o S_max_onset_difference
        THEN "offset_difference"
    ELSE IF match_by = S_window \/ match_by = S_window \o SP \o S_based THEN "window_based"
    ELSE IF Contains(match_by, S_l2) THEN "l2_timing"
    ELSE "generic_matching"

\* the threshold keywords each named branch pops from match_kwargs (default 0)
StrategyKeywords(strategy) ==
    CASE strategy \in {"first_overlap", "last_overlap", "max_overlap",
                       "longest_overlapping_event"} -> {"min_overlap"}
      [] strategy = "iou" -> {"min_iou"}
      [] strategy = "onset_difference" -> {"max_onset_difference"}
      [] strategy = "offset_difference" -> {"max_offset_difference"}
      [] strategy = "window_based" -> {"max_onset_difference", "max_offset_difference"}
      [] strategy = "l2_timing" -> {"max_l2"}
      [] OTHER -> {}

\* faulty variant: the generic strategy is handed the threshold keywords only
StrategyArgumentsThresholdsOnly(strategy, match_kwargs) ==
    [k \in StrategyKeywords(strategy) |-> DictPop(match_kwargs, k, PyInt(0)).value]

\* the keyword arguments handed to the strategy besides allow_cross_matching
StrategyArguments(strategy, match_kwargs) ==
    IF strategy = "generic_matching"
    THEN match_kwargs
    ELSE [k \in StrategyKeywords(strategy) |-> DictPop(match_kwargs, k, PyInt(0)).value]

(***************************************************************************)
(* EventMatcher: the strategy family of section 4.2.  Every strategy keeps *)
(* the eligible (ground truth, prediction) pairs, and gives each ground-   *)
(* truth event, in order, the best eligible predicted event that no        *)
(* earlier ground-truth event has taken.                                   *)
(***************************************************************************)
OnsetDifference(g, p) == Abs(start_time(g) - start_time(p))

OffsetDifference(g, p) == Abs(end_time(g) - end_time(p))

TotalUnion(g, p) == duration(g) + duration(p) - TotalOverlap(g, p)

L2Squared(g, p) ==
    OnsetDifference(g, p) * OnsetDifference(g, p) + OffsetDifference(g, p) * OffsetDifference(g, p)

\* the eligibility test a threshold keyword stands for
KeywordHolds(k, v, g, p) ==
    CASE k = "min_overlap" -> TotalOverlap(g, p) > v
      [] k = "min_iou" -> TotalUnion(g, p) > 0 /\ TotalOverlap(g, p) > v * TotalUnion(g, p)
      [] k = "max_onset_difference" -> OnsetDifference(g, p) <= v
      [] k = "max_offset_difference" -> OffsetDifference(g, p) <= v
      [] k = "max_l2" -> v >= 0 /\ L2Squared(g, p) <= v * v
      [] OTHER -> TRUE

Eligible(g, p, cross, kw) ==
    /\ Truthy(cross) \/ g.label = p.label
    /\ \A k \in DOMAIN kw : KeywordHolds(k, kw[k].v, g, p)

\* what a strategy minimises among the eligible predicted events
Cost(strategy, g, p) ==
    CASE strategy = "first_overlap" -> F(start_time(p))
      [] strategy = "last_overlap" -> F(0 - start_time(p))
      [] strategy = "max_overlap" -> F(0 - TotalOverlap(g, p))
      [] strategy = "longest_overlapping_event" -> F(0 - duration(p))
      [] strategy = "iou" -> <<0 - TotalOverlap(g, p), TotalUnion(g, p)>>
      [] strategy = "onset_difference" -> F(OnsetDifference(g, p))
      [] strategy = "offset_difference" -> F(OffsetDifference(g, p))
      [] strategy = "window_based" -> F(OnsetDifference(g, p) + OffsetDifference(g, p))
      [] strategy = "l2_timing" -> F(L2Squared(g, p))
      [] OTHER -> F(0)

\* prediction[i] is chosen before prediction[j]: lower cost, then earlier start, then
\* earlier position
Beats(strategy, g, prediction, i, j) ==
    LET ci == Cost(strategy, g, prediction[i])
        cj == Cost(strategy, g, prediction[j])
    IN \/ FLt(ci, cj)
       \/ /\ ~FLt(cj, ci)
          /\ \/ start_time(prediction[i]) < start_time(prediction[j])
             \/ /\ start_time(prediction[i]) = start_time(prediction[j])
                /\ i < j

EventMatcher(strategy, ground_truth, prediction, cross, kw) ==
    LET RECURSIVE From(_, _, _)
        From(i, used, matches) ==
            IF i > Len(ground_truth) THEN matches
            ELSE LET g == ground_truth[i]
                     eligible == {j \in (1 .. Len(prediction)) \ used :
                                     Eligible(g, prediction[j], cross, kw)}
                 IN IF eligible = {} THEN From(i + 1, used, matches)
                    ELSE LET best == CHOOSE j \in eligible :
                                 \A k \in eligible \ {j} : Beats(strategy, g, prediction, j, k)
                         IN From(i + 1, used \cup {best}, DictSet(matches, g, prediction[best]))
    IN From(1, {}, <<>>)

\* match(ground_truth, prediction, match_by, ignore_events, allow_xmatch, **match_kwargs):
\* what reaches the strategy, what is left in match's own match_kwargs dict when it
\* returns, and the mapping returned
Match(ground_truth, prediction, match_by, ignore_events, allow_xmatch, match_kwargs) ==
    LET ignore   == IgnoreSet(ignore_events)
        name     == NormalizeMatchBy(match_by)
        xmatch   == ResolveXmatch(allow_xmatch, match_kwargs)
        gt       == FilterIgnored(ground_truth, ignore)
        pred     == FilterIgnored(prediction, ignore)
        strategy == Strategy(name)
        keywords == StrategyArguments(strategy, xmatch.rest)
    IN [strategy |-> strategy, ground_truth |-> gt, prediction |-> pred,
        allow_cross_matching |-> xmatch.value, keywords |-> keywords,
        kwargs_left |-> [k \in DOMAIN xmatch.rest \ StrategyKeywords(strategy) |-> xmatch.rest[k]],
        result |-> EventMatcher(strategy, gt, pred, xmatch.value, keywords)]

(***************************************************************************)
(* The calls of match that the model makes.                                *)
(***************************************************************************)
\* the names of the docstring of match (lines 27-35), lower case, blank-separated,
\* and some names it does not list
MatchByBases ==
    {S_first, S_first \o SP \o S_overlap, S_last, S_last \o SP \o S_overlap,
     S_max, S_max \o SP \o S_overlap, S_longest \o SP \o S_overlap,
     S_iou, S_intersection \o SP \o S_over \o SP \o S_union,
     S_onset, S_onset \o SP \o S_difference, S_offset, S_offset \o SP \o S_difference,
     S_window, S_window \o SP \o S_based, S_l2, S_l2 \o SP \o S_timing,
     S_generic, S_nearest, S_longest, S_overlap, S_difference,
     S_overlap \o SP \o S_longest, S_l2 \o SP \o S_norm, S_nearest \o SP \o S_onset,
     S_offset \o SP \o S_max_onset_difference}

Capitalize(s) == [i \in 1 .. Len(s) |-> IF i = 1 THEN UpperChar(s[i]) ELSE s[i]]

\* a spelling of a name: its separator, its letter case, blanks around it
Spelling(base, sep, case, padded) ==
    LET joined == Replace(base, " ", sep)
        cased  == CASE case = "upper" -> Upper(joined)
                    [] case = "capitalized" -> Capitalize(joined)
                    [] OTHER -> joined
    IN IF padded THEN SP \o cased \o SP ELSE cased

MatchByInputs ==
    {Spelling(b, sep, case, padded) :
        b \in MatchByBases, sep \in {" ", "-", "_"},
        case \in {"lower", "upper", "capitalized"}, padded \in BOOLEAN}

Event(label, t) == [label |-> label, t |-> t]

MatchEvents ==
    {Event(l, t) : l \in {"FIXATION", "SACCADE"}, t \in {<<0, 2>>, <<1, 3>>}}

SeqsUpTo(S, n) == UNION {[1 .. k -> S] : k \in 0 .. n}

IgnoreInputs ==
    {[is_none |-> TRUE, labels |-> {}]}
        \cup {[is_none |-> FALSE, labels |-> L] : L \in SUBSET {"FIXATION", "SACCADE"}}

\* allow_xmatch as the caller gives it; when it is not supplied the parameter takes
\* its default, False (line 17)
XmatchInputs ==
    {[supplied |-> FALSE, value |-> PyBool(FALSE)],
     [supplied |-> TRUE, value |-> PyBool(FALSE)],
     [supplied |-> TRUE, value |-> PyBool(TRUE)]}

KwargKeys ==
    {"allow_cross_match", "min_overlap", "min_iou", "max_onset_difference",
     "max_offset_difference", "max_l2"}

KwargValues(k) == IF k = "allow_cross_match" THEN {PyBool(FALSE), PyBool(TRUE)} ELSE {PyInt(1)}

KwargsInputs ==
    UNION {{kw \in [K -> {PyBool(FALSE), PyBool(TRUE), PyInt(1)}] :
                \A k \in K : kw[k] \in KwargValues(k)} :
           K \in {K \in SUBSET KwargKeys : Cardinality(K) <= MaxKwargs}}

NoKwargs == [k \in {} |-> PyNone]

\* calls that vary the name, the flag and the keywords, over two fixed sequences
DispatchCalls ==
    [op : {"match"},
     ground_truth : {<<Event("FIXATION", <<0, 2>>), Event("SACCADE", <<2, 3>>)>>},
     prediction : {<<Event("FIXATION", <<0, 1>>), Event("SACCADE", <<1, 3>>)>>},
     match_by : MatchByInputs,
     ignore_events : {[is_none |-> TRUE, labels |-> {}]},
     allow_xmatch : XmatchInputs,
     match_kwargs : KwargsInputs]

\* calls that vary the sequences and the ignored labels, one name per strategy
FilterCalls ==
    [op : {"match"},
     ground_truth : SeqsUpTo(MatchEvents, MaxSeqLen),
     prediction : SeqsUpTo(MatchEvents, MaxSeqLen),
     match_by : {S_first, S_last, S_max \o SP \o S_overlap, S_longest \o SP \o S_overlap,
                 S_iou, S_onset, S_offset, S_window, S_l2, S_generic},
     ignore_events : IgnoreInputs,
     allow_xmatch : {[supplied |-> FALSE, value |-> PyBool(FALSE)],
                     [supplied |-> TRUE, value |-> PyBool(TRUE)]},
     match_kwargs : {NoKwargs}]

InitMatch ==
    /\ EVENT_MAPPING \in [ConfigLabels -> {[min_duration |-> F(0), max_duration |-> F(MaxDur)]}]
    /\ setter = NoSetter
    /\ args \in DispatchCalls \cup FilterCalls
    /\ out = NoOut

\* one call of match, from its arguments to its return
match ==
    /\ args.op = "match"
    /\ out.pc = "idle"
    /\ out' = [pc |-> "returned",
               call |-> Match(args.ground_truth, args.prediction, args.match_by,
                              args.ignore_events, args.allow_xmatch.value, args.match_kwargs)]
    /\ UNCHANGED <<EVENT_MAPPING, setter, args>>

NextMatch == match

SpecMatch == InitMatch /\ [][NextMatch]_vars

(***************************************************************************)
(* match_multiple: one call of match per prediction source, in the         *)
(* iteration order of the predictions dict.                                *)
(***************************************************************************)
SourceNames == {"ivt", "engbert"}

Orders(S) == {o \in [1 .. Cardinality(S) -> S] : \A i, j \in 1 .. Cardinality(S) : o[i] = o[j] => i = j}

MultiCalls ==
    {[op |-> "match_multiple", ground_truth |-> gt, predictions |-> preds, order |-> order,
      match_by |-> name, ignore_events |-> ignore, allow_xmatch |-> xmatch,
      verbose |-> verbose, match_kwargs |-> kw] :
        gt \in SeqsUpTo({Event("FIXATION", <<0, 2>>), Event("SACCADE", <<1, 3>>)}, MaxMultiLen),
        preds \in UNION {[S -> SeqsUpTo({Event("FIXATION", <<1, 3>>), Event("FIXATION", <<0, 2>>),
                                          Event("SACCADE", <<1, 3>>)}, MaxMultiLen)] :
                         S \in SUBSET SourceNames},
        order \in UNION {Orders(S) : S \in SUBSET SourceNames},
        name \in {S_first, S_max \o SP \o S_overlap, S_onset, S_generic},
        ignore \in {[is_none |-> TRUE, labels |-> {}], [is_none |-> FALSE, labels |-> {"SACCADE"}]},
        xmatch \in {[supplied |-> FALSE, value |-> PyBool(FALSE)],
                    [supplied |-> TRUE, value |-> PyBool(TRUE)]},
        verbose \in BOOLEAN,
        kw \in {kw \in KwargsInputs : DOMAIN kw \subseteq {"allow_cross_match", "min_overlap"}}}

InitMulti ==
    /\ EVENT_MAPPING \in [ConfigLabels -> {[min_duration |-> F(0), max_duration |-> F(MaxDur)]}]
    /\ setter = NoSetter
    /\ args \in {c \in MultiCalls : {c.order[i] : i \in 1 .. Len(c.order)} = DOMAIN c.predictions}
    /\ out = NoOut

\* faulty variant: match works on the caller's dict, so what it pops is gone for the next source
KwargsAfterMatchShared(own, left_in_match) == left_in_match

\* match(..., **match_kwargs) unpacks into a new dict: the caller's dict is as before
KwargsAfterMatch(own, left_in_match) == own

\* matches = {}
match_multiple_call ==
    /\ args.op = "match_multiple"
    /\ out.pc = "idle"
    /\ out' = [pc |-> "loop", pending |-> args.order, matches |-> <<>>,
               match_kwargs |-> args.match_kwargs]
    /\ UNCHANGED <<EVENT_MAPPING, setter, args>>

\* one round of the for loop: matches[name] = match(ground_truth, pred, ...)
match_multiple_iteration ==
    /\ out.pc = "loop"
    /\ out.pending # <<>>
    /\ LET name == Head(out.pending)
           call == Match(args.ground_truth, args.predictions[name], args.match_by,
                         args.ignore_events, args.allow_xmatch.value, out.match_kwargs)
       IN out' = [out EXCEPT !.pending = Tail(out.pending),
                             !.matches = DictSet(out.matches, name, call.result),
                             !.match_kwargs = KwargsAfterMatch(out.match_kwargs, call.kwargs_left)]
    /\ UNCHANGED <<EVENT_MAPPING, setter, args>>

\* return matches
match_multiple_return ==
    /\ out.pc = "loop"
    /\ out.pending = <<>>
    /\ out' = [pc |-> "returned", matches |-> out.matches]
    /\ UNCHANGED <<EVENT_MAPPING, setter, args>>

NextMulti ==
    \/ match_multiple_call
    \/ match_multiple_iteration
    \/ match_multiple_return

SpecMulti == InitMulti /\ [][NextMulti]_vars

(***************************************************************************)
(* Agreement statistics: _extract_contingency_values and                   *)
(* precision_recall_f1.                                                    *)
(***************************************************************************)
\* [positive_labels] if isinstance(positive_labels, EventLabelEnum) else positive_labels
PositiveList(positive_labels) ==
    IF positive_labels.is_enum THEN <<positive_labels.label>> ELSE positive_labels.labels

\* label in labels, for a list of labels
InList(label, labels) == \E i \in 1 .. Len(labels) : labels[i] = label

\* len([e for e in events if e.label in labels])
CountPositive(events, labels) ==
    LET RECURSIVE Count(_)
        Count(es) ==
            IF es = <<>> THEN 0
            ELSE (IF InList(Head(es).label, labels) THEN 1 ELSE 0) + Count(Tail(es))
    IN Count(events)

\* matches.values()
Values(matches) == [i \in 1 .. Len(matches) |-> matches[i][2]]

\* matches.keys()
Keys(matches) == [i \in 1 .. Len(matches) |-> matches[i][1]]

\* faulty variant: a pair counts as a true positive only when both of its events are positive
ExtractContingencyValuesBothSides(ground_truth, prediction, matches, positive_labels) ==
    LET labels == PositiveList(positive_labels)
        p  == CountPositive(ground_truth, labels)
    IN [p |-> p, n |-> Len(ground_truth) - p,
        pp |-> CountPositive(prediction, labels),
        tp |-> Len(SelectSeq(matches,
                   LAMBDA m : InList(m[1].label, labels) /\ InList(m[2].label, labels)))]

\* _extract_contingency_values
ExtractContingencyValues(ground_truth, prediction, matches, positive_labels) ==
    LET labels == PositiveList(positive_labels)
        p  == CountPositive(ground_truth, labels)
    IN [p |-> p, n |-> Len(ground_truth) - p,
        pp |-> CountPositive(prediction, labels),
        tp |-> CountPositive(Values(matches), labels)]

\* faulty variant: f1 is computed without the test precision + recall > 0
RatesUnguarded(p, pp, tp) ==
    LET recall    == IF p > 0 THEN Div(F(tp), F(p)) ELSE [raised |-> "none", value |-> NaN]
        precision == IF pp > 0 THEN Div(F(tp), F(pp)) ELSE [raised |-> "none", value |-> NaN]
        sum       == FAdd(precision.value, recall.value)
        f1        == Div(FMul(F(2), FMul(precision.value, recall.value)), sum)
    IN [raised |-> f1.raised, precision |-> precision.value, recall |-> recall.value,
        f1 |-> f1.value]

\* lines 167-170 of precision_recall_f1: the three rates from the counts
Rates(p, pp, tp) ==
    LET recall    == IF p > 0 THEN Div(F(tp), F(p)) ELSE [raised |-> "none", value |-> NaN]
        precision == IF pp > 0 THEN Div(F(tp), F(pp)) ELSE [raised |-> "none", value |-> NaN]
        sum       == FAdd(precision.value, recall.value)
        f1        == IF FGt(sum, F(0))
                     THEN Div(FMul(F(2), FMul(precision.value, recall.value)), sum)
                     ELSE [raised |-> "none", value |-> NaN]
    IN [raised |-> IF recall.raised # "none" THEN recall.raised
                   ELSE IF precision.raised # "none" THEN precision.raised
                   ELSE f1.raised,
        precision |-> precision.value, recall |-> recall.value, f1 |-> f1.value]

StatEvents ==
    {Event("FIXATION", <<0, 2>>), Event("SACCADE", <<0, 2>>), Event("FIXATION", <<1, 3>>)}

Elements(s) == {s[i] : i \in 1 .. Len(s)}

\* the one-to-one mappings from events of ground_truth to events of prediction, as
\* dicts filled in the order of ground_truth
OneToOneMatches(ground_truth, prediction) ==
    LET pairings == UNION {{f \in [K -> Elements(prediction)] :
                               \A a, b \in K : f[a] = f[b] => a = b} :
                           K \in SUBSET Elements(ground_truth)}
        RECURSIVE Fill(_, _, _)
        Fill(f, i, d) ==
            IF i > Len(ground_truth) THEN d
            ELSE Fill(f, i + 1, IF ground_truth[i] \in DOMAIN f
                                THEN DictSet(d, ground_truth[i], f[ground_truth[i]])
                                ELSE d)
    IN {Fill(f, 1, <<>>) : f \in pairings}

PositiveInputs ==
    {[is_enum |-> TRUE, label |-> l, labels |-> <<>>] : l \in {"FIXATION", "SACCADE"}}
        \cup {[is_enum |-> FALSE, label |-> "UNDEFINED", labels |-> ls] :
                 ls \in {<<>>, <<"FIXATION">>, <<"SACCADE", "FIXATION">>}}

InitStats ==
    /\ EVENT_MAPPING \in [ConfigLabels -> {[min_duration |-> F(0), max_duration |-> F(MaxDur)]}]
    /\ setter = NoSetter
    /\ \E gt \in SeqsUpTo(StatEvents, MaxStatLen), pred \in SeqsUpTo(StatEvents, MaxStatLen) :
           \E m \in OneToOneMatches(gt, pred), pos \in PositiveInputs :
               args = [op |-> "precision_recall_f1", ground_truth |-> gt, prediction |-> pred,
                       matches |-> m, positive_labels |-> pos]
    /\ out = NoOut

\* one call of precision_recall_f1
precision_recall_f1 ==
    /\ args.op = "precision_recall_f1"
    /\ out.pc = "idle"
    /\ LET c == ExtractContingencyValues(args.ground_truth, args.prediction, args.matches,
                                         args.positive_labels)
           r == Rates(c.p, c.pp, c.tp)
       IN out' = [pc |-> "returned", raised |-> r.raised, p |-> c.p, n |-> c.n, pp |-> c.pp,
                  tp |-> c.tp, precision |-> r.precision, recall |-> r.recall, f1 |-> r.f1]
    /\ UNCHANGED <<EVENT_MAPPING, setter, args>>

NextStats == precision_recall_f1

SpecStats == InitStats /\ [][NextStats]_vars

(***************************************************************************)
(* BaseEvent.time_overlap and BaseEvent.time_iou.                          *)
(***************************************************************************)
\* self.time_overlap(other, normalize): the exception raised, or the value
TimeOverlap(self, other, normalize) ==
    IF normalize
    THEN Div(F(TotalOverlap(self, other)), F(duration(self)))
    ELSE [raised |-> "none", value |-> F(TotalOverlap(self, other))]

\* faulty variant: the union takes a fixed length for the other event
TimeIoUOwnDuration(self, other) ==
    LET total_overlap == TimeOverlap(self, other, FALSE).value
        total_union   == FSub(F(duration(self) + 1), total_overlap)
    IN Div(total_overlap, total_union)

\* self.time_iou(other)
TimeIoU(self, other) ==
    LET total_overlap == TimeOverlap(self, other, FALSE).value
        total_union   == FSub(FAdd(F(duration(self)), F(duration(other))), total_overlap)
    IN Div(total_overlap, total_union)

\* the integer square root
ISqrt(n) == CHOOSE r \in 0 .. n : r * r <= n /\ (r + 1) * (r + 1) > n

\* np.linalg.norm([a, b]), the float sqrt(a*a + b*b): a fraction when the root is
\* one, and otherwise <<n, d, 2>>, the square root of n / d
Root(n, d, rn, rd) == IF rn * rn = n /\ rd * rd = d THEN <<rn, rd>> ELSE <<n, d, 2>>

SquareRoot(sq) == Root(sq[1], sq[2], ISqrt(sq[1]), ISqrt(sq[2]))

Norm(a, b) ==
    IF IsNaN(a) \/ IsNaN(b) THEN NaN ELSE SquareRoot(FAdd(FMul(a, a), FMul(b, b)))

\* self.time_l2(other)
TimeL2(self, other) ==
    Norm(F(start_time(self) - start_time(other)), F(end_time(self) - end_time(other)))

(***************************************************************************)
(* The pixel properties of an event that calculate reads.                  *)
(* pixels_to_visual_angle and calculate_azimuth belong to helpers.         *)
(* pixel_utils, which is not part of the sources at hand: they are taken   *)
(* from the design's rule that an unknown (not-a-number) pixel or          *)
(* calibration value propagates as not-a-number and never throws.  What    *)
(* they return for known values is not modelled; the events offered to     *)
(* calculate carry no pixel samples and no calibration.                    *)
(***************************************************************************)
start_pixel(e) == <<e.x[1], e.y[1]>>

end_pixel(e) == <<e.x[Len(e.x)], e.y[Len(e.y)]>>

\* np.linalg.norm([p[0] - q[0], p[1] - q[1]])
PixelDistance(p, q) == Norm(FSub(p[1], q[1]), FSub(p[2], q[2]))

distance(e) == PixelDistance(end_pixel(e), start_pixel(e))

pixels_to_visual_angle(px, d, pixel_size) ==
    CASE IsNaN(px) \/ IsNaN(d) \/ IsNaN(pixel_size) -> NaN

calculate_azimuth(p1, p2) ==
    CASE IsNaN(p1[1]) \/ IsNaN(p1[2]) \/ IsNaN(p2[1]) \/ IsNaN(p2[2]) -> NaN

amplitude(e) == pixels_to_visual_angle(distance(e), e.viewer_distance, e.pixel_size)

azimuth(e) == calculate_azimuth(start_pixel(e), end_pixel(e))

\* np.nanmean(a): the mean of the entries that are numbers, not-a-number if none is
nanmean(a) ==
    LET RECURSIVE Sum(_, _, _)
        Sum(i, total, count) ==
            IF i > Len(a) THEN IF count = 0 THEN NaN ELSE Div(total, F(count)).value
            ELSE IF IsNaN(a[i]) THEN Sum(i + 1, total, count)
            ELSE Sum(i + 1, FAdd(total, a[i]), count + 1)
    IN Sum(1, F(0), 0)

center_pixel(e) == <<nanmean(e.x), nanmean(e.y)>>

\* the methods and properties BaseEvent defines; gt.center_distance is not among them
BaseEventAttributes ==
    {"velocities", "get_outlier_reasons", "summary", "time_overlap", "time_iou", "time_l2",
     "get_min_duration", "set_min_duration", "get_max_duration", "set_max_duration", "label",
     "is_outlier", "start_time", "start_pixel", "end_time", "end_pixel", "duration", "distance",
     "amplitude", "azimuth", "cumulative_distance", "cumulative_amplitude", "center_pixel",
     "pixel_std", "top_pixel", "bottom_pixel", "left_pixel", "right_pixel", "x_dispersion",
     "y_dispersion"}

(***************************************************************************)
(* calculate and _calculate_impl.                                          *)
(***************************************************************************)
US == <<"_">>

S_duration == <<"d", "u", "r", "a", "t", "i", "o", "n">>

S_amplitude == <<"a", "m", "p", "l", "i", "t", "u", "d", "e">>

S_azimuth == <<"a", "z", "i", "m", "u", "t", "h">>

S_center == <<"c", "e", "n", "t", "e", "r">>

S_pixel == <<"p", "i", "x", "e", "l">>

S_distance == <<"d", "i", "s", "t", "a", "n", "c", "e">>

S_time == <<"t", "i", "m", "e">>

\* s.removesuffix(suffix)
RemoveSuffix(s, suffix) ==
    IF Len(suffix) > 0 /\ Len(s) >= Len(suffix)
       /\ SubSeq(s, Len(s) - Len(suffix) + 1, Len(s)) = suffix
    THEN SubSeq(s, 1, Len(s) - Len(suffix))
    ELSE s

\* faulty variant: a trailing "_difference" is kept
FeatureNameSuffixKept(feature) ==
    Replace(Replace(Strip(Lower(feature)), " ", "_"), "-", "_")

\* feature.lower().strip().replace(" ", "_").replace("-", "_").removesuffix("_difference")
FeatureName(feature) ==
    RemoveSuffix(Replace(Replace(Strip(Lower(feature)), " ", "_"), "-", "_"),
                 US \o S_difference)

\* the if-chain of _calculate_impl
FeatureBranch(feature_name) ==
    IF feature_name = S_onset THEN "onset"
    ELSE IF feature_name = S_offset THEN "offset"
    ELSE IF feature_name = S_duration THEN "duration"
    ELSE IF feature_name = S_amplitude THEN "amplitude"
    ELSE IF feature_name = S_azimuth THEN "azimuth"
    ELSE IF feature_name = S_center \o US \o S_pixel \o US \o S_distance
        THEN "center_pixel_distance"
    ELSE IF feature_name = S_time \o US \o S_overlap THEN "time_overlap"
    ELSE IF feature_name = S_time \o US \o S_iou THEN "time_iou"
    ELSE IF feature_name = S_time \o US \o S_l2 THEN "time_l2"
    ELSE "unknown"

\* faulty variant: the differences are taken as prediction minus ground truth
FeatureValueReversed(branch, gt, pred) ==
    CASE branch = "onset" -> [raised |-> "none", value |-> F(start_time(pred) - start_time(gt))]
      [] branch = "offset" -> [raised |-> "none", value |-> F(end_time(pred) - end_time(gt))]
      [] branch = "duration" -> [raised |-> "none", value |-> F(duration(pred) - duration(gt))]
      [] OTHER -> [raised |-> "none", value |-> NaN]

\* the entry of one matched pair in the array of a branch
FeatureValue(branch, gt, pred) ==
    CASE branch = "onset" -> [raised |-> "none", value |-> F(start_time(gt) - start_time(pred))]
      [] branch = "offset" -> [raised |-> "none", value |-> F(end_time(gt) - end_time(pred))]
      [] branch = "duration" -> [raised |-> "none", value |-> F(duration(gt) - duration(pred))]
      [] branch = "amplitude" ->
             [raised |-> "none", value |-> FSub(amplitude(gt), amplitude(pred))]
      [] branch = "azimuth" -> [raised |-> "none", value |-> FSub(azimuth(gt), azimuth(pred))]
      [] branch = "center_pixel_distance" ->
             IF "center_distance" \in BaseEventAttributes
             THEN [raised |-> "none",
                   value |-> PixelDistance(center_pixel(gt), center_pixel(pred))]
             ELSE [raised |-> "AttributeError", value |-> NaN]
      [] branch = "time_overlap" -> TimeOverlap(gt, pred, TRUE)
      [] branch = "time_iou" -> TimeIoU(gt, pred)
      [] branch = "time_l2" -> [raised |-> "none", value |-> TimeL2(gt, pred)]

\* _calculate_impl(matches, feature): the exception raised, or the array
CalculateImpl(matches, feature) ==
    LET branch == FeatureBranch(FeatureName(feature)) IN
    IF branch = "unknown" THEN [raised |-> "ValueError", value |-> <<>>, branch |-> branch]
    ELSE LET items  == [i \in 1 .. Len(matches) |->
                           FeatureValue(branch, matches[i][1], matches[i][2])]
             failed == {i \in 1 .. Len(matches) : items[i].raised # "none"}
         IN IF failed = {}
            THEN [raised |-> "none", value |-> [i \in 1 .. Len(matches) |-> items[i].value],
                  branch |-> branch]
            ELSE [raised |-> items[CHOOSE i \in failed : \A j \in failed : i <= j].raised,
                  value |-> <<>>, branch |-> branch]

\* calculate(matches, features): one array for a str, a dict of arrays for a sequence
Calculate(matches, features) ==
    IF features.is_str THEN CalculateImpl(matches, features.name)
    ELSE LET RECURSIVE Loop(_, _)
             Loop(i, results) ==
                 IF i > Len(features.names)
                 THEN [raised |-> "none", value |-> results, branch |-> "several"]
                 ELSE LET r == CalculateImpl(matches, features.names[i]) IN
                      IF r.raised # "none"
                      THEN [raised |-> r.raised, value |-> <<>>, branch |-> "several"]
                      ELSE Loop(i + 1, DictSet(results, features.names[i], r.value))
         IN Loop(1, <<>>)

\* validly constructed events: the time samples are sorted; one sample, or two
TimedEvents ==
    {Event(l, t) : l \in {"FIXATION", "SACCADE"},
                   t \in {<<s>> : s \in 0 .. MaxTime}
                             \cup {t \in (0 .. MaxTime) \X (0 .. MaxTime) : t[1] <= t[2]}}

PairEvents ==
    {TimesOnly("FIXATION", <<0>>), TimesOnly("FIXATION", <<0, 1>>),
     TimesOnly("FIXATION", <<0, MaxTime>>), TimesOnly("SACCADE", <<1, MaxTime>>)}

\* one-to-one mappings of up to MaxPairs pairs of events
PairMappings ==
    {m \in SeqsUpTo(PairEvents \X PairEvents, MaxPairs) :
        \A i, j \in 1 .. Len(m) : i # j => (m[i][1] # m[j][1] /\ m[i][2] # m[j][2])}

\* the names of the docstring of calculate (lines 128-136), other spellings of
\* them, and some names it does not list
FeatureInputs ==
    {S_onset, S_offset, S_duration, S_amplitude, S_azimuth,
     S_center \o US \o S_pixel \o US \o S_distance,
     S_time \o US \o S_overlap, S_time \o US \o S_iou, S_time \o US \o S_l2,
     S_onset \o US \o S_difference, S_offset \o <<"-">> \o Upper(S_difference),
     S_time \o US \o S_l2 \o SP \o S_difference,
     Upper(S_time) \o <<"-">> \o S_iou, S_time \o SP \o S_overlap,
     SP \o S_onset, S_duration \o <<"\t">>, <<"\t">> \o S_offset \o SP \o S_difference \o SP,
     S_time \o <<"\t">> \o S_overlap, S_onset \o SP, <<"-">> \o S_onset,
     S_onset \o US \o S_difference \o US \o S_difference, S_difference,
     US \o S_difference, S_nearest, S_duration \o <<"s">>}

NoEvent == Event("UNDEFINED", <<0>>)

NoFeatures == [is_str |-> TRUE, name |-> <<>>, names |-> <<>>]

OverlapCall(op, self, other, normalize, matches, features) ==
    [op |-> op, self |-> self, other |-> other, normalize |-> normalize,
     matches |-> matches, features |-> features]

InitOverlap ==
    /\ EVENT_MAPPING \in [ConfigLabels -> {[min_duration |-> F(0), max_duration |-> F(MaxDur)]}]
    /\ setter = NoSetter
    /\ \/ \E self \in TimedEvents, other \in TimedEvents, normalize \in BOOLEAN :
              args = OverlapCall("time_overlap", self, other, normalize, <<>>, NoFeatures)
       \/ \E self \in TimedEvents, other \in TimedEvents :
              args = OverlapCall("time_iou", self, other, TRUE, <<>>, NoFeatures)
       \/ \E self \in TimedEvents, other \in TimedEvents :
              args = OverlapCall("time_l2", self, other, TRUE, <<>>, NoFeatures)
       \/ \E m \in PairMappings, f \in FeatureInputs :
              args = OverlapCall("calculate", NoEvent, NoEvent, TRUE, m,
                                 [is_str |-> TRUE, name |-> f, names |-> <<>>])
       \/ \E m \in PairMappings, f \in FeatureInputs, g \in {S_duration, S_time \o US \o S_iou} :
              args = OverlapCall("calculate", NoEvent, NoEvent, TRUE, m,
                                 [is_str |-> FALSE, name |-> <<>>, names |-> <<f, g>>])
    /\ out = NoOut

time_overlap ==
    /\ args.op = "time_overlap"
    /\ out.pc = "idle"
    /\ LET r == TimeOverlap(args.self, args.other, args.normalize)
       IN out' = [pc |-> "returned", raised |-> r.raised, value |-> r.value]
    /\ UNCHANGED <<EVENT_MAPPING, setter, args>>

time_iou ==
    /\ args.op = "time_iou"
    /\ out.pc = "idle"
    /\ LET r == TimeIoU(args.self, args.other)
       IN out' = [pc |-> "returned", raised |-> r.raised, value |-> r.value]
    /\ UNCHANGED <<EVENT_MAPPING, setter, args>>

time_l2 ==
    /\ args.op = "time_l2"
    /\ out.pc = "idle"
    /\ out' = [pc |-> "returned", raised |-> "none", value |-> TimeL2(args.self, args.other)]
    /\ UNCHANGED <<EVENT_MAPPING, setter, args>>

calculate ==
    /\ args.op = "calculate"
    /\ out.pc = "idle"
    /\ LET r == Calculate(args.matches, args.features)
       IN out' = [pc |-> "returned", raised |-> r.raised, value |-> r.value, branch |-> r.branch]
    /\ UNCHANGED <<EVENT_MAPPING, setter, args>>

NextOverlap ==
    \/ time_overlap
    \/ time_iou
    \/ time_l2
    \/ calculate

SpecOverlap == InitOverlap /\ [][NextOverlap]_vars

(***************************************************************************)
(* What the claims about match speak of.                                   *)
(***************************************************************************)
\* a name with its letter case and its separators folded
Folded(name) == Strip(Replace(Replace(Lower(name), "-", " "), "_", " "))

\* the full name and the short alias the docstring of match gives each strategy
DocumentedNames ==
    [first_overlap |-> {S_first \o SP \o S_overlap, S_first},
     last_overlap |-> {S_last \o SP \o S_overlap, S_last},
     max_overlap |-> {S_max \o SP \o S_overlap, S_max},
     longest_overlapping_event |-> {S_longest \o SP \o S_overlap},
     iou |-> {S_intersection \o SP \o S_over \o SP \o S_union, S_iou},
     onset_difference |-> {S_onset \o SP \o S_difference, S_onset},
     offset_difference |-> {S_offset \o SP \o S_difference, S_offset},
     window_based |-> {S_window \o SP \o S_based, S_window},
     l2_timing |-> {S_l2 \o SP \o S_timing, S_l2}]

AllDocumentedNames == UNION {DocumentedNames[st] : st \in DOMAIN DocumentedNames}

Ignored == IF args.ignore_events.is_none THEN {} ELSE args.ignore_events.labels

KeptOf(events) == SelectSeq(events, LAMBDA e : e.label \notin Ignored)

AliasGiven == "allow_cross_match" \in DOMAIN args.match_kwargs

\* the allow_cross_matching value: the parameter when it is true, else the alias
\* when it is given, else False
OrOfParameterAndAlias ==
    IF args.allow_xmatch.value = PyBool(TRUE) THEN PyBool(TRUE)
    ELSE IF AliasGiven THEN args.match_kwargs["allow_cross_match"]
    ELSE PyBool(FALSE)

\* the generic strategy got the filtered sequences, the resolved flag and every
\* keyword that was not consumed as the alias of the flag, unchanged
GenericGetsEverything ==
    /\ out.call.strategy = "generic_matching"
    /\ out.call.ground_truth = KeptOf(args.ground_truth)
    /\ out.call.prediction = KeptOf(args.prediction)
    /\ out.call.allow_cross_matching = OrOfParameterAndAlias
    /\ DOMAIN out.call.keywords \subseteq DOMAIN args.match_kwargs
    /\ DOMAIN args.match_kwargs \ {"allow_cross_match"} \subseteq DOMAIN out.call.keywords
    /\ \A k \in DOMAIN out.call.keywords : out.call.keywords[k] = args.match_kwargs[k]

(***************************************************************************)
(* C3.  For each of the nine named strategies, match dispatches to that    *)
(* strategy for its full name and for its short alias, in any letter case  *)
(* and with blanks, hyphens and underscores as separators.                 *)
(***************************************************************************)
C3_DocumentedNamesDispatch ==
    out.pc = "returned" =>
        \A st \in DOMAIN DocumentedNames :
            Folded(args.match_by) \in DocumentedNames[st] => out.call.strategy = st

C5_ParameterTakesPrecedence ==
    (out.pc = "returned" /\ AliasGiven) =>
        out.call.allow_cross_matching =
            IF args.allow_xmatch.supplied THEN args.allow_xmatch.value
            ELSE args.match_kwargs["allow_cross_match"]

(***************************************************************************)
(* C5 (amended).  The strategy gets allow_xmatch or allow_cross_match: the *)
(* parameter takes precedence over the alias only when it is True; when it *)
(* is False, supplied or not, the alias decides.                           *)
(***************************************************************************)
C5_ParameterOrAlias ==
    out.pc = "returned" => out.call.allow_cross_matching = OrOfParameterAndAlias

\* C5: an explicit allow_xmatch=False with allow_cross_match=True gave True
C5_Witness ==
    /\ out.pc = "returned"
    /\ args.allow_xmatch = [supplied |-> TRUE, value |-> PyBool(FALSE)]
    /\ AliasGiven
    /\ args.match_kwargs["allow_cross_match"] = PyBool(TRUE)
    /\ out.call.allow_cross_matching = PyBool(TRUE)

(***************************************************************************)
(* C6.  match removes every event with an ignored label from both          *)
(* sequences before the strategy runs and keeps the others in order, so no *)
(* key and no value of the mapping has an ignored label; None ignores      *)
(* nothing.                                                                *)
(***************************************************************************)
C6_IgnoredLabelsFiltered ==
    out.pc = "returned" =>
        /\ out.call.ground_truth = KeptOf(args.ground_truth)
        /\ out.call.prediction = KeptOf(args.prediction)
        /\ \A i \in 1 .. Len(out.call.result) :
               /\ out.call.result[i][1].label \notin Ignored
               /\ out.call.result[i][2].label \notin Ignored
        /\ args.ignore_events.is_none =>
               /\ out.call.ground_truth = args.ground_truth
               /\ out.call.prediction = args.prediction

\* C6: a call that dropped an event from each sequence and still matched a pair
C6_Witness ==
    /\ out.pc = "returned"
    /\ Ignored = {"SACCADE"}
    /\ Len(args.ground_truth) = 2 /\ Len(out.call.ground_truth) = 1
    /\ Len(args.prediction) = 2 /\ Len(out.call.prediction) = 1
    /\ args.ground_truth[1].label = "SACCADE"
    /\ Len(out.call.result) = 1

(***************************************************************************)
(* C7.  match_multiple returns exactly one mapping per prediction source,  *)
(* and the mapping of a source is what a separate call of match with that  *)
(* source and the same keywords returns, whatever the order of the         *)
(* sources, the other sources and the verbose flag.                        *)
(***************************************************************************)
C7_EachSourceAsMatchAlone ==
    (args.op = "match_multiple" /\ out.pc = "returned") =>
        /\ Len(out.matches) = Cardinality(DOMAIN args.predictions)
        /\ \A name \in DOMAIN args.predictions :
               \E i \in 1 .. Len(out.matches) :
                   /\ out.matches[i][1] = name
                   /\ out.matches[i][2] =
                          Match(args.ground_truth, args.predictions[name], args.match_by,
                                args.ignore_events, args.allow_xmatch.value,
                                args.match_kwargs).result

\* C7: two sources, min_overlap consumed by each call, and the second source processed
\* got no match because of it
C7_Witness ==
    /\ args.op = "match_multiple" /\ out.pc = "returned"
    /\ Len(out.matches) = 2
    /\ "min_overlap" \in DOMAIN args.match_kwargs
    /\ args.match_by = S_first
    /\ args.ground_truth = <<Event("FIXATION", <<0, 2>>)>>
    /\ args.predictions[args.order[2]] = <<Event("FIXATION", <<1, 3>>)>>
    /\ out.matches[2][2] = <<>>

(***************************************************************************)
(* What the claims about the statistics speak of.                          *)
(***************************************************************************)
\* the positive labels of the call, as a set
Positive ==
    IF args.positive_labels.is_enum THEN {args.positive_labels.label}
    ELSE Elements(args.positive_labels.labels)

NumberOf(events) == Cardinality({i \in 1 .. Len(events) : events[i].label \in Positive})

\* rate is the quotient num / den (den > 0), or not-a-number when den = 0
IsQuotient(rate, num, den) ==
    IF den = 0 THEN IsNaN(rate)
    ELSE ~IsNaN(rate) /\ rate[1] * den = num * rate[2]

\* r holds the rates the claim gives for the counts p, pp, tp:
\* recall = tp/p, precision = tp/pp,
\* f1 = 2 (tp/pp) (tp/p) / (tp/pp + tp/p) = (2 tp tp) / (tp p + tp pp)
RatesAsClaimed(r, p, pp, tp) ==
    /\ r.raised = "none"
    /\ IsQuotient(r.recall, tp, p)
    /\ IsQuotient(r.precision, tp, pp)
    /\ IF p = 0 \/ pp = 0 THEN IsNaN(r.f1)
       ELSE IsQuotient(r.f1, 2 * tp * tp, tp * p + tp * pp)

\* the rates of all counts up to MaxCount, also those no one-to-one mapping gives
RatesOfSmallCounts ==
    \A p, pp, tp \in 0 .. MaxCount : RatesAsClaimed(Rates(p, pp, tp), p, pp, tp)

\* the scenario of section 8: p = 10, pp = 7, tp = 5
RatesOfScenario ==
    Rates(10, 7, 5) = [raised |-> "none", precision |-> <<5, 7>>, recall |-> <<1, 2>>,
                       f1 |-> <<10, 17>>]

(***************************************************************************)
(* C8.  Contingency extraction returns p = the number of ground-truth      *)
(* events with a positive label, n = len(ground_truth) - p, pp = the       *)
(* number of predicted events with a positive label, and tp = the number   *)
(* of matched pairs whose predicted event has a positive label, whatever   *)
(* the label of the ground-truth event of the pair.                        *)
(***************************************************************************)
C8_ContingencyCounts ==
    (args.op = "precision_recall_f1" /\ out.pc = "returned") =>
        /\ out.p = NumberOf(args.ground_truth)
        /\ out.n = Len(args.ground_truth) - out.p
        /\ out.pp = NumberOf(args.prediction)
        /\ out.tp = NumberOf(Values(args.matches))

\* C8: a pair counted as a true positive whose ground-truth event is not positive
C8_Witness ==
    /\ args.op = "precision_recall_f1" /\ out.pc = "returned"
    /\ args.positive_labels.is_enum
    /\ Len(args.matches) = 2
    /\ \E i \in 1 .. 2 : /\ args.matches[i][1].label \notin Positive
                         /\ args.matches[i][2].label \in Positive
    /\ out.tp = 2 /\ out.p = 1 /\ out.n = 2 /\ out.pp = 3

(***************************************************************************)
(* C9.  For all counts p, pp, tp >= 0, precision_recall_f1 never raises    *)
(* and returns recall = tp/p (not-a-number if p = 0), precision = tp/pp    *)
(* (not-a-number if pp = 0) and f1 = 2 precision recall / (precision +     *)
(* recall) (not-a-number if that is undefined); for p = 10, pp = 7, tp = 5 *)
(* it yields recall 1/2, precision 5/7 and f1 10/17.                       *)
(***************************************************************************)
C9_RatesOrNaN ==
    /\ (args.op = "precision_recall_f1" /\ out.pc = "returned") =>
           RatesAsClaimed(out, out.p, out.pp, out.tp)
    /\ RatesOfSmallCounts
    /\ RatesOfScenario

\* C9: a call with a numeric f1 (recall 1/2, precision 1, f1 2/3)
C9_Witness ==
    /\ args.op = "precision_recall_f1" /\ out.pc = "returned"
    /\ out.p = 2 /\ out.pp = 1 /\ out.tp = 1
    /\ out.recall = <<1, 2>> /\ out.precision = <<1, 1>> /\ out.f1 = <<2, 3>>

\* a call with no positive ground-truth event: recall and f1 are not-a-number
C9_WitnessNoPositives ==
    /\ args.op = "precision_recall_f1" /\ out.pc = "returned"
    /\ out.p = 0 /\ out.pp = 1 /\ out.tp = 1
    /\ IsNaN(out.recall) /\ out.precision = <<1, 1>> /\ IsNaN(out.f1)

(***************************************************************************)
(* C10.  Normalized time_overlap, time_iou and the calculate features      *)
(* 'time_overlap' and 'time_iou' never raise for validly constructed       *)
(* events: when the divisor is zero (a zero-duration event, or a union of  *)
(* zero length) the result is not-a-number, not an exception.              *)
(***************************************************************************)
C10_NaNNotException ==
    /\ (args.op = "time_overlap" /\ args.normalize /\ out.pc = "returned") =>
           /\ out.raised = "none"
           /\ duration(args.self) = 0 => IsNaN(out.value)
    /\ (args.op = "time_iou" /\ out.pc = "returned") =>
           /\ out.raised = "none"
           /\ (duration(args.self) = 0 /\ duration(args.other) = 0) => IsNaN(out.value)
    /\ (/\ args.op = "calculate" /\ out.pc = "returned" /\ args.features.is_str
        /\ FeatureName(args.features.name) \in {S_time \o US \o S_overlap, S_time \o US \o S_iou})
           => out.raised = "none"

(***************************************************************************)
(* Construction of events: one call of BaseEvent.__init__ on a subclass.   *)
(***************************************************************************)
\* the x, y or pupil argument for n timestamps: left out, of the same length (sample
\* i carries base + i, so a sample is recognised wherever it ends up), or one longer
ArrayInputs(n, base) ==
    {Omitted, Given([i \in 1 .. n |-> F(base + i)]), Given([i \in 1 .. n + 1 |-> F(base + i)])}

ScalarInputs == {NaN, F(1), F(0), F(-1)}

InitEvent ==
    /\ EVENT_MAPPING \in [ConfigLabels -> {[min_duration |-> F(0), max_duration |-> F(MaxDur)]}]
    /\ setter = NoSetter
    /\ \E n \in 1 .. MaxSamples :
           \E t \in [1 .. n -> 0 .. MaxTime], x \in ArrayInputs(n, 10), y \in ArrayInputs(n, 20),
              pupil \in ArrayInputs(n, 30), vd \in ScalarInputs, ps \in ScalarInputs :
               args = [op |-> "__init__", label |-> "FIXATION", t |-> t, x |-> x, y |-> y,
                       pupil |-> pupil, viewer_distance |-> vd, pixel_size |-> ps]
    /\ out = NoOut

\* FixationEvent(t, x, y, pupil, viewer_distance, pixel_size)
BaseEvent_init ==
    /\ args.op = "__init__"
    /\ out.pc = "idle"
    /\ LET raised == InitRaises(args.t, args.x, args.y, args.pupil, args.viewer_distance,
                                args.pixel_size)
       IN IF raised # "none"
          THEN out' = [pc |-> "returned", raised |-> raised, self |-> TimesOnly("UNDEFINED", <<0>>)]
          ELSE \E order \in Argsorts(args.t) :
                   out' = [pc |-> "returned", raised |-> "none",
                           self |-> BaseEvent(args.label, args.t, args.x, args.y, args.pupil,
                                              args.viewer_distance, args.pixel_size, order)]
    /\ UNCHANGED <<EVENT_MAPPING, setter, args>>

NextEvent == BaseEvent_init

SpecEvent == InitEvent /\ [][NextEvent]_vars

\* what the claims about construction speak of
LengthOf(array) == IF array.given THEN Len(array.a) ELSE Len(args.t)

LengthsDiffer ==
    \E array \in {args.x, args.y, args.pupil} : LengthOf(array) # Len(args.t)

\* a calibration scalar was supplied (is a number) and is not strictly positive
NotPositive(scalar) == ~IsNaN(scalar) /\ ~FGt(scalar, F(0))

ConstructionMustFail ==
    LengthsDiffer \/ NotPositive(args.viewer_distance) \/ NotPositive(args.pixel_size)

AllNaN(array) == \A i \in 1 .. Len(array) : IsNaN(array[i])

DefaultsKept ==
    /\ ~args.x.given => (Len(out.self.x) = Len(args.t) /\ AllNaN(out.self.x))
    /\ ~args.y.given => (Len(out.self.y) = Len(args.t) /\ AllNaN(out.self.y))
    /\ ~args.pupil.given => (Len(out.self.pupil) = Len(args.t) /\ AllNaN(out.self.pupil))
    /\ IsNaN(args.viewer_distance) => IsNaN(out.self.viewer_distance)
    /\ IsNaN(args.pixel_size) => IsNaN(out.self.pixel_size)

(***************************************************************************)
(* C15 (as stated).  Constructing an Event fails with a ValidationError if *)
(* the t, x, y and pupil arrays do not all have the same length or a       *)
(* supplied viewer_distance or pixel_size is not strictly positive; an     *)
(* omitted x, y or pupil array is filled with not-a-number per sample and  *)
(* an omitted calibration scalar stays not-a-number without failing.       *)
(***************************************************************************)
C15_FailsWithValidationError ==
    (args.op = "__init__" /\ out.pc = "returned") =>
        IF ConstructionMustFail THEN out.raised = "ValidationError"
        ELSE out.raised = "none" /\ DefaultsKept

(***************************************************************************)
(* C15 (amended).  Such a construction fails with an AssertionError (the   *)
(* checks are assert statements); every other construction succeeds, with  *)
(* omitted arrays filled with not-a-number per sample and omitted          *)
(* calibration scalars left not-a-number.                                  *)
(***************************************************************************)
C15_FailsWithAssertionError ==
    (args.op = "__init__" /\ out.pc = "returned") =>
        IF ConstructionMustFail THEN out.raised = "AssertionError"
        ELSE out.raised = "none" /\ DefaultsKept

\* C15: a construction rejected for its array lengths alone
C15_Witness ==
    /\ args.op = "__init__" /\ out.pc = "returned"
    /\ LengthsDiffer
    /\ ~NotPositive(args.viewer_distance) /\ ~NotPositive(args.pixel_size)
    /\ out.raised = "AssertionError"

\* C15: a construction with x and the calibration left out succeeds
C15_WitnessDefaults ==
    /\ args.op = "__init__" /\ out.pc = "returned"
    /\ ~args.x.given /\ args.y.given /\ IsNaN(args.viewer_distance)
    /\ out.raised = "none" /\ AllNaN(out.self.x) /\ Len(out.self.x) = Len(args.t)

\* the (t, x, y, pupil) row of sample i
RowOf(t, x, y, pupil, i) == <<t[i], x[i], y[i], pupil[i]>>

\* the rows the constructor was given (omitted arrays are not-a-number)
GivenRow(i) ==
    RowOf(args.t,
          IF args.x.given THEN args.x.a ELSE full_like(args.t),
          IF args.y.given THEN args.y.a ELSE full_like(args.t),
          IF args.pupil.given THEN args.pupil.a ELSE full_like(args.t), i)

StoredRow(i) == RowOf(out.self.t, out.self.x, out.self.y, out.self.pupil, i)

\* the stored rows are the given rows, each exactly once
RowsPermuted ==
    \E p \in [1 .. Len(args.t) -> 1 .. Len(args.t)] :
        /\ \A i, j \in 1 .. Len(args.t) : p[i] = p[j] => i = j
        /\ \A i \in 1 .. Len(args.t) : StoredRow(i) = GivenRow(p[i])

(***************************************************************************)
(* C16.  For every event constructed from samples (at least one, with      *)
(* numeric timestamps) given in arbitrary time order: the stored time      *)
(* array is ascending, the four arrays are permuted together, start_time   *)
(* is the earliest timestamp, end_time the latest, and                     *)
(* duration = end_time - start_time >= 0.                                  *)
(***************************************************************************)
C16_SortedByTime ==
    (args.op = "__init__" /\ out.pc = "returned" /\ out.raised = "none") =>
        /\ Len(out.self.t) = Len(args.t)
        /\ \A i, j \in 1 .. Len(out.self.t) : i < j => out.self.t[i] <= out.self.t[j]
        /\ RowsPermuted
        /\ \A i \in 1 .. Len(args.t) : start_time(out.self) <= args.t[i]
        /\ \E i \in 1 .. Len(args.t) : start_time(out.self) = args.t[i]
        /\ \A i \in 1 .. Len(args.t) : end_time(out.self) >= args.t[i]
        /\ \E i \in 1 .. Len(args.t) : end_time(out.self) = args.t[i]
        /\ duration(out.self) = end_time(out.self) - start_time(out.self)
        /\ duration(out.self) >= 0

\* C16: three samples given latest first, stored earliest first with their x and y
C16_Witness ==
    /\ args.op = "__init__" /\ out.pc = "returned" /\ out.raised = "none"
    /\ args.t = <<2, 1, 0>> /\ args.x.given /\ args.y.given
    /\ out.self.t = <<0, 1, 2>>
    /\ out.self.x = <<F(13), F(12), F(11)>>
    /\ out.self.y = <<F(23), F(22), F(21)>>
    /\ start_time(out.self) = 0 /\ end_time(out.self) = 2 /\ duration(out.self) = 2

(***************************************************************************)
(* What the claims about calculate speak of.                               *)
(***************************************************************************)
SingleFeatureCall == args.op = "calculate" /\ out.pc = "returned" /\ args.features.is_str

SeveralFeaturesCall == args.op = "calculate" /\ out.pc = "returned" /\ ~args.features.is_str

\* the nine feature names, each with the branch that computes it
FeatureNames ==
    {<<S_onset, "onset">>, <<S_offset, "offset">>, <<S_duration, "duration">>,
     <<S_amplitude, "amplitude">>, <<S_azimuth, "azimuth">>,
     <<S_center \o US \o S_pixel \o US \o S_distance, "center_pixel_distance">>,
     <<S_time \o US \o S_overlap, "time_overlap">>, <<S_time \o US \o S_iou, "time_iou">>,
     <<S_time \o US \o S_l2, "time_l2">>}

Known(normalized) == \E f \in FeatureNames : f[1] = normalized

\* lower-cased, whitespace and hyphens turned into underscores, an optional trailing
\* "_difference" stripped
NormalizedAsStated(name) ==
    LET folded == [i \in 1 .. Len(name) |->
                      IF name[i] \in Whitespace \cup {"-"} THEN "_" ELSE LowerChar(name[i])]
    IN RemoveSuffix(folded, US \o S_difference)

\* lower-cased, surrounding whitespace dropped, every blank and hyphen left turned
\* into an underscore, one trailing "_difference" stripped
NormalizedAsAmended(name) ==
    LET folded == [i \in 1 .. Len(Strip(name)) |->
                      IF Strip(name)[i] \in {" ", "-"} THEN "_" ELSE LowerChar(Strip(name)[i])]
    IN RemoveSuffix(folded, US \o S_difference)

(***************************************************************************)
(* C11 (as stated).  calculate normalizes each feature name by lower-      *)
(* casing it, turning whitespace and hyphens into underscores and          *)
(* stripping an optional trailing "_difference"; a name that normalizes to *)
(* one of the nine feature names is accepted (it reaches the computation   *)
(* of that feature and is not rejected with ValueError) and every other    *)
(* name fails with ValueError.                                             *)
(***************************************************************************)
C11_NamesNormalizedAsStated ==
    SingleFeatureCall =>
        IF Known(NormalizedAsStated(args.features.name))
        THEN /\ <<NormalizedAsStated(args.features.name), out.branch>> \in FeatureNames
             /\ out.raised # "ValueError"
        ELSE out.raised = "ValueError"

(***************************************************************************)
(* C11 (amended).  The normalization is: lower-case the name, drop the     *)
(* whitespace around it, turn every remaining blank and hyphen into an     *)
(* underscore (other whitespace inside the name stays), strip one trailing *)
(* "_difference".  A name that normalizes to one of the nine feature names *)
(* is accepted and every other name fails with ValueError; a sequence of   *)
(* names fails with ValueError at its first unknown name.                  *)
(***************************************************************************)
C11_NamesNormalizedAsAmended ==
    /\ SingleFeatureCall =>
           IF Known(NormalizedAsAmended(args.features.name))
           THEN /\ <<NormalizedAsAmended(args.features.name), out.branch>> \in FeatureNames
                /\ out.raised # "ValueError"
           ELSE out.raised = "ValueError" /\ out.branch = "unknown"
    /\ SeveralFeaturesCall =>
           /\ (\A i \in 1 .. Len(args.features.names) :
                   Known(NormalizedAsAmended(args.features.names[i])))
                  => out.raised # "ValueError"
           /\ ~Known(NormalizedAsAmended(args.features.names[1])) => out.raised = "ValueError"

\* C11: "<tab>offset difference " is accepted as the offset feature
C11_Witness ==
    /\ SingleFeatureCall
    /\ args.features.name = <<"\t">> \o S_offset \o SP \o S_difference \o SP
    /\ Len(args.matches) = 2
    /\ out.branch = "offset" /\ out.raised = "none" /\ Len(out.value) = 2

\* C11: "onset_difference_difference" is rejected
C11_WitnessRejected ==
    /\ SingleFeatureCall
    /\ args.features.name = S_onset \o US \o S_difference \o US \o S_difference
    /\ out.raised = "ValueError"

\* the property of an event that a difference feature compares
ValueOf(branch, e) ==
    CASE branch = "onset" -> start_time(e)
      [] branch = "offset" -> end_time(e)
      [] branch = "duration" -> duration(e)

DifferenceBranches == {"onset", "offset", "duration"}

\* the scenario: pairs with durations (100, 80) and (50, 35)
DurationScenario ==
    CalculateImpl(<<<<TimesOnly("FIXATION", <<0, 100>>), TimesOnly("FIXATION", <<10, 90>>)>>,
                    <<TimesOnly("SACCADE", <<100, 150>>), TimesOnly("SACCADE", <<105, 140>>)>>>>,
                  S_duration)
        = [raised |-> "none", value |-> <<F(20), F(15)>>, branch |-> "duration"]

\* the names of a sequence, each once, in the order of their first occurrence
FirstOccurrences(names) ==
    SelectSeq([i \in 1 .. Len(names) |-> <<i, names[i]>>],
              LAMBDA q : \A j \in 1 .. q[1] - 1 : names[j] # q[2])

(***************************************************************************)
(* C12.  For a one-to-one match mapping, calculate with a single name of a *)
(* difference feature (onset, offset, duration) returns a flat array with  *)
(* one entry per matched pair, in the insertion order of the ground-truth  *)
(* keys, each entry the ground-truth value minus the predicted value (for  *)
(* 'duration' on pairs with durations (100, 80) and (50, 35): [20, 15]);   *)
(* with a sequence of names, each of which calculate computes when asked   *)
(* alone, it returns one array per requested name, equal to what the       *)
(* single-name call returns for that name.                                 *)
(***************************************************************************)
C12_OneEntryPerPair ==
    /\ (SingleFeatureCall /\ out.branch \in DifferenceBranches) =>
           /\ out.raised = "none"
           /\ Len(out.value) = Len(args.matches)
           /\ \A i \in 1 .. Len(args.matches) :
                  out.value[i] = F(ValueOf(out.branch, args.matches[i][1])
                                       - ValueOf(out.branch, args.matches[i][2]))
    /\ (/\ SeveralFeaturesCall
        /\ \A i \in 1 .. Len(args.features.names) :
               CalculateImpl(args.matches, args.features.names[i]).raised = "none") =>
           /\ out.raised = "none"
           /\ Len(out.value) = Len(FirstOccurrences(args.features.names))
           /\ \A k \in 1 .. Len(out.value) :
                  /\ out.value[k][1] = FirstOccurrences(args.features.names)[k][2]
                  /\ out.value[k][2] = CalculateImpl(args.matches, out.value[k][1]).value
    /\ DurationScenario

\* C12: two pairs with durations (2, 1) and (1, 2), in this order of the keys
C12_Witness ==
    /\ SingleFeatureCall
    /\ args.features.name = S_duration
    /\ Len(args.matches) = 2
    /\ duration(args.matches[1][1]) = 2 /\ duration(args.matches[1][2]) = 1
    /\ duration(args.matches[2][1]) = 1 /\ duration(args.matches[2][2]) = 2
    /\ out.raised = "none" /\ out.value = <<F(1), F(-1)>>

\* C12: a sequence of two names returns two named arrays
C12_WitnessSeveral ==
    /\ SeveralFeaturesCall
    /\ args.features.names = <<S_onset \o US \o S_difference, S_duration>>
    /\ Len(args.matches) = 2
    /\ out.raised = "none" /\ Len(out.value) = 2
    /\ out.value[1][1] = S_onset \o US \o S_difference /\ out.value[2][1] = S_duration

(***************************************************************************)
(* C13.  The calculate feature 'time_overlap' gives, for each matched      *)
(* pair, the total overlap time in milliseconds between the ground-truth   *)
(* and the predicted event: max(0, min(end) - max(start)), not normalized. *)
(***************************************************************************)
C13_OverlapInMilliseconds ==
    (SingleFeatureCall /\ out.branch = "time_overlap") =>
        /\ out.raised = "none"
        /\ Len(out.value) = Len(args.matches)
        /\ \A i \in 1 .. Len(args.matches) :
               out.value[i] = F(Max2(0, Min2(end_time(args.matches[i][1]),
                                             end_time(args.matches[i][2]))
                                        - Max2(start_time(args.matches[i][1]),
                                               start_time(args.matches[i][2]))))

(***************************************************************************)
(* C14.  The calculate feature 'center_pixel_distance' succeeds for every  *)
(* one-to-one match mapping and returns, for each matched pair, the        *)
(* Euclidean distance between the center pixel (mean x, mean y) of the     *)
(* ground-truth event and that of the predicted event.                     *)
(***************************************************************************)
C14_CenterPixelDistance ==
    (SingleFeatureCall /\ out.branch = "center_pixel_distance") =>
        /\ out.raised = "none"
        /\ Len(out.value) = Len(args.matches)
        /\ \A i \in 1 .. Len(args.matches) :
               out.value[i] = PixelDistance(center_pixel(args.matches[i][1]),
                                            center_pixel(args.matches[i][2]))

(***************************************************************************)
(* C17.  For all pairs of events A and B, of equal or different labels,    *)
(* time_iou(A, B) and time_iou(B, A) have the same outcome, and so do      *)
(* time_l2(A, B) and time_l2(B, A), whereas normalized time_overlap is the *)
(* overlap divided by the duration of the receiving event only.            *)
(***************************************************************************)
C17_Symmetry ==
    /\ (args.op = "time_iou" /\ out.pc = "returned") =>
           /\ out.raised = TimeIoU(args.other, args.self).raised
           /\ out.value = TimeIoU(args.other, args.self).value
    /\ (args.op = "time_l2" /\ out.pc = "returned") =>
           /\ out.raised = "none"
           /\ out.value = TimeL2(args.other, args.self)
    /\ (/\ args.op = "time_overlap" /\ out.pc = "returned" /\ args.normalize
        /\ duration(args.self) > 0) =>
           /\ out.raised = "none"
           /\ out.value[1] * duration(args.self)
                  = out.value[2] * TimeOverlap(args.self, args.other, FALSE).value[1]
           /\ TimeOverlap(args.self, args.other, FALSE).value
                  = TimeOverlap(args.other, args.self, FALSE).value

\* C17: events of different labels and durations 2 and 1 that share 1, iou 1/2
C17_Witness ==
    /\ args.op = "time_iou" /\ out.pc = "returned"
    /\ args.self.label # args.other.label
    /\ args.self.t = <<0, 2>> /\ args.other.t = <<1, 2>>
    /\ out.raised = "none" /\ out.value = <<1, 2>>

\* C17: time_l2 of events whose onsets and offsets each differ by 1
C17_WitnessL2 ==
    /\ args.op = "time_l2" /\ out.pc = "returned"
    /\ args.self.t = <<0, 1>> /\ args.other.t = <<1, 2>>
    /\ out.value = <<2, 1, 2>>

\* C17: normalized overlap 1/2 for the receiver of duration 2 (1 the other way round)
C17_WitnessOverlap ==
    /\ args.op = "time_overlap" /\ out.pc = "returned" /\ args.normalize
    /\ args.self.t = <<0, 2>> /\ args.other.t = <<1, 2>>
    /\ out.value = <<1, 2>>
    /\ TimeOverlap(args.other, args.self, TRUE).value = <<1, 1>>

(***************************************************************************)
(* BaseEvent.get_outlier_reasons and BaseEvent.is_outlier, read while the  *)
(* configuration is being updated.                                         *)
(***************************************************************************)
\* faulty variant: only the lower bound is looked at
get_outlier_reasons_min_only(cfg, self) ==
    IF FLt(F(duration(self)), get_min_duration(cfg, self.label))
    THEN <<"min_duration">> ELSE <<>>

\* self.get_outlier_reasons() under the configuration cfg
get_outlier_reasons(cfg, self) ==
    LET below == IF FLt(F(duration(self)), get_min_duration(cfg, self.label))
                 THEN <<"min_duration">> ELSE <<>>
        above == IF FGt(F(duration(self)), get_max_duration(cfg, self.label))
                 THEN <<"max_duration">> ELSE <<>>
    IN below \o above

\* self.is_outlier under the configuration cfg
IsOutlier(cfg, self) == Len(get_outlier_reasons(cfg, self)) > 0

\* already-constructed events: fixations of durations 0, 1 and MaxDur + 1, and a saccade
OutlierEvents ==
    {TimesOnly("FIXATION", <<0>>), TimesOnly("FIXATION", <<0, 1>>),
     TimesOnly("FIXATION", <<0, MaxDur + 1>>), TimesOnly("SACCADE", <<1, 2>>)}

InitOutlier ==
    /\ EVENT_MAPPING \in [ConfigLabels -> ValidBounds]
    /\ setter = NoSetter
    /\ \E e \in OutlierEvents : args = [op |-> "is_outlier", self |-> e]
    /\ out = [pc |-> "idle", value |-> FALSE, seen |-> EVENT_MAPPING[args.self.label]]

\* one read of args.self.is_outlier; seen records the bounds of the label at the read
is_outlier ==
    /\ args.op = "is_outlier"
    /\ out' = [pc |-> "returned", value |-> IsOutlier(EVENT_MAPPING, args.self),
               seen |-> EVENT_MAPPING[args.self.label]]
    /\ UNCHANGED <<EVENT_MAPPING, setter, args>>

NextOutlier ==
    \/ \E cls \in ConfigLabels, v \in DurationInputs : set_min_duration(cls, v)
    \/ \E cls \in ConfigLabels, v \in DurationInputs : set_max_duration(cls, v)
    \/ is_outlier

SpecOutlier == InitOutlier /\ [][NextOutlier]_vars

\* the duration of e is below min_duration or above max_duration of bounds
OutsideWindow(bounds, e) ==
    \/ FLt(F(end_time(e) - start_time(e)), bounds.min_duration)
    \/ FGt(F(end_time(e) - start_time(e)), bounds.max_duration)

(***************************************************************************)
(* C18.  At any point in any sequence of configuration updates, an event's *)
(* is_outlier is true if and only if its duration is below the current     *)
(* min_duration or above the current max_duration of its label; a          *)
(* successful setter call changes the outlier status of already            *)
(* constructed events of that label accordingly.                           *)
(***************************************************************************)
C18_OutlierFollowsConfiguration ==
    /\ out.pc = "returned" => (out.value <=> OutsideWindow(out.seen, args.self))
    /\ \A e \in OutlierEvents :
           IsOutlier(EVENT_MAPPING, e) <=> OutsideWindow(EVENT_MAPPING[e.label], e)

\* C18: an event inside the window of its label until set_max_duration narrowed it,
\* read as an outlier after that call
C18_Witness ==
    /\ args.op = "is_outlier" /\ out.pc = "returned"
    /\ setter.op = "set_max_duration" /\ setter.raised = "none"
    /\ setter.label = args.self.label
    /\ ~OutsideWindow(setter.before, args.self)
    /\ out.seen = EVENT_MAPPING[args.self.label]
    /\ out.value

(***************************************************************************)
(* match called twice by a caller that keeps its ground_truth and          *)
(* prediction lists, its ignore_events set and its keyword dict between    *)
(* the two calls.                                                          *)
(***************************************************************************)
\* faulty variant: the sequences are filtered in place
SequenceAfterMatchInPlace(own, filtered) == filtered

\* lines 44-45 bind the names ground_truth and prediction to new lists: the caller's
\* list is as before
SequenceAfterMatch(own, filtered) == own

\* line 41, ignore_events or set(): the caller's set is only read
IgnoreAfterMatch(own) == own

TwiceCalls ==
    FilterCalls
        \cup [op : {"match"},
              ground_truth : {<<Event("FIXATION", <<0, 2>>), Event("SACCADE", <<2, 3>>)>>},
              prediction : {<<Event("FIXATION", <<0, 1>>), Event("SACCADE", <<1, 3>>)>>},
              match_by : {S_first, S_max \o <<"-">> \o S_overlap, S_generic},
              ignore_events : {[is_none |-> FALSE, labels |-> {"SACCADE"}]},
              allow_xmatch : XmatchInputs,
              match_kwargs : KwargsInputs]

InitTwice ==
    /\ EVENT_MAPPING \in [ConfigLabels -> {[min_duration |-> F(0), max_duration |-> F(MaxDur)]}]
    /\ setter = NoSetter
    /\ args \in TwiceCalls
    /\ out = [pc |-> "idle", results |-> <<>>, ground_truth |-> args.ground_truth,
              prediction |-> args.prediction, ignore_events |-> args.ignore_events,
              match_kwargs |-> args.match_kwargs, configuration |-> EVENT_MAPPING]

\* one call match(ground_truth, prediction, match_by, ignore_events=ignore_events,
\* allow_xmatch=allow_xmatch, **match_kwargs) on the objects the caller holds
match_again ==
    /\ args.op = "match"
    /\ out.pc \in {"idle", "once"}
    /\ LET call == Match(out.ground_truth, out.prediction, args.match_by, out.ignore_events,
                         args.allow_xmatch.value, out.match_kwargs)
       IN out' = [out EXCEPT !.pc = IF out.pc = "idle" THEN "once" ELSE "twice",
                             !.results = Append(out.results, call.result),
                             !.ground_truth = SequenceAfterMatch(out.ground_truth,
                                                                 call.ground_truth),
                             !.prediction = SequenceAfterMatch(out.prediction, call.prediction),
                             !.ignore_events = IgnoreAfterMatch(out.ignore_events),
                             !.match_kwargs = KwargsAfterMatch(out.match_kwargs,
                                                               call.kwargs_left)]
    /\ UNCHANGED <<EVENT_MAPPING, setter, args>>

NextTwice == match_again

SpecTwice == InitTwice /\ [][NextTwice]_vars

(***************************************************************************)
(* C19.  Calling match twice with identical inputs and parameters yields   *)
(* an identical mapping: match does not mutate the caller's ground_truth   *)
(* or prediction sequences, the ignore_events set (nor the caller's        *)
(* keywords), or the process-wide duration configuration.                  *)
(***************************************************************************)
C19_MatchTwiceSameMapping ==
    (args.op = "match" /\ out.pc # "idle") =>
        /\ out.ground_truth = args.ground_truth
        /\ out.prediction = args.prediction
        /\ out.ignore_events = args.ignore_events
        /\ out.match_kwargs = args.match_kwargs
        /\ EVENT_MAPPING = out.configuration
        /\ out.pc = "twice" => out.results[1] = out.results[2]

\* C19: two calls that each drop a saccade of both sequences and match the fixations
C19_Witness ==
    /\ args.op = "match" /\ out.pc = "twice"
    /\ ~args.ignore_events.is_none /\ args.ignore_events.labels = {"SACCADE"}
    /\ \E i \in 1 .. Len(args.ground_truth) : args.ground_truth[i].label = "SACCADE"
    /\ \E i \in 1 .. Len(args.prediction) : args.prediction[i].label = "SACCADE"
    /\ Len(out.results[1]) = 1
    /\ out.results[1] = out.results[2]

(***************************************************************************)
(* BaseEvent.__hash__ and BaseEvent.__eq__, and the lookup of an event in  *)
(* a dict keyed by events.                                                 *)
(*                                                                         *)
(* The hash of a tuple is modelled by the tuple of the hashes of its       *)
(* elements, and the hash of a number by the number.  The hash of a        *)
(* not-a-number float is derived from the address of the float object      *)
(* (CPython 3.10 and later).  tuple(self._x) makes new float objects out   *)
(* of the array at every call, so the address of each is whatever the      *)
(* allocator hands out at that call; self._viewer_distance and             *)
(* self._pixel_size are stored objects, and the ones left at their default *)
(* are the one object np.nan.                                              *)
(***************************************************************************)
\* hash of an element of tuple(array), made at address addr
HashElement(x, addr) == IF IsNaN(x) THEN <<0, 0, addr>> ELSE <<x[1], x[2], 0>>

\* hash(tuple(array)); addrs[i] is the address of the i-th element made
HashArray(array, addrs) == [i \in 1 .. Len(array) |-> HashElement(array[i], addrs[i])]

\* hash of a stored calibration scalar: a number, or the object np.nan
HashScalar(x) == IF IsNaN(x) THEN <<0, 0, 0>> ELSE <<x[1], x[2], 0>>

\* self.__hash__(); ax, ay, ap are the addresses of the elements of the three tuples
Hash(self, ax, ay, ap) ==
    <<self.label, [i \in 1 .. Len(self.t) |-> <<self.t[i], 1, 0>>],
      HashArray(self.x, ax), HashArray(self.y, ay), HashArray(self.pupil, ap),
      HashScalar(self.viewer_distance), HashScalar(self.pixel_size)>>

\* np.array_equal(a, b, equal_nan=True)
array_equal(a, b) ==
    /\ Len(a) = Len(b)
    /\ \A i \in 1 .. Len(a) : (IsNaN(a[i]) /\ IsNaN(b[i])) \/ (a[i] = b[i] /\ ~IsNaN(a[i]))

\* self.__eq__(other), for events of the classes FixationEvent ... BlinkEvent
Eq(self, other) ==
    /\ self.label = other.label
    /\ self.t = other.t
    /\ array_equal(self.x, other.x)
    /\ array_equal(self.y, other.y)
    /\ array_equal(self.pupil, other.pupil)
    /\ array_equal(<<self.viewer_distance>>, <<other.viewer_distance>>)
    /\ array_equal(<<self.pixel_size>>, <<other.pixel_size>>)

\* events with and without pixel samples, pupil samples and calibration
HashEvents ==
    UNION {{BaseEvent(l, t, x, Given([i \in 1 .. Len(t) |-> F(20 + i)]), pupil, c, c,
                      [i \in 1 .. Len(t) |-> i]) :
               l \in {"FIXATION", "SACCADE"},
               x \in {Omitted, Given([i \in 1 .. Len(t) |-> F(10 + i)])},
               pupil \in {Omitted, Given([i \in 1 .. Len(t) |-> F(30 + i)])},
               c \in {NaN, F(1)}} :
           t \in {<<0>>, <<0, 1>>}}

InitHash ==
    /\ EVENT_MAPPING \in [ConfigLabels -> {[min_duration |-> F(0), max_duration |-> F(MaxDur)]}]
    /\ setter = NoSetter
    /\ \E key \in HashEvents, probe \in HashEvents, same \in BOOLEAN :
           /\ same => key = probe
           /\ args = [op |-> "lookup", key |-> key, probe |-> probe, same_object |-> same]
    /\ out = [pc |-> "idle", stored |-> <<>>, probed |-> <<>>, found |-> FALSE]

Addresses(array) == [1 .. Len(array) -> 1 .. MaxAddr]

\* matches[key] = ...: the dict stores the key under hash(key)
dict_setitem ==
    /\ args.op = "lookup"
    /\ out.pc = "idle"
    /\ \E ax \in Addresses(args.key.x), ay \in Addresses(args.key.y),
          ap \in Addresses(args.key.pupil) :
           out' = [out EXCEPT !.pc = "stored", !.stored = Hash(args.key, ax, ay, ap)]
    /\ UNCHANGED <<EVENT_MAPPING, setter, args>>

\* probe in matches: the entry is found when the hashes agree and the key is the
\* probe itself or equal to it
dict_contains ==
    /\ args.op = "lookup"
    /\ out.pc = "stored"
    /\ \E ax \in Addresses(args.probe.x), ay \in Addresses(args.probe.y),
          ap \in Addresses(args.probe.pupil) :
           LET h == Hash(args.probe, ax, ay, ap)
           IN out' = [out EXCEPT !.pc = "returned", !.probed = h,
                                 !.found = /\ h = out.stored
                                           /\ (args.same_object \/ Eq(args.key, args.probe))]
    /\ UNCHANGED <<EVENT_MAPPING, setter, args>>

NextHash ==
    \/ dict_setitem
    \/ dict_contains

SpecHash == InitHash /\ [][NextHash]_vars

(***************************************************************************)
(* C20.  Two events that compare equal have equal hash values, and the     *)
(* hash of an event is the same every time it is computed, including for   *)
(* events whose x, y, pupil samples or calibration scalars are             *)
(* not-a-number; hence a ground-truth event stored as a key of a match     *)
(* mapping can always be found again by an equal event.                    *)
(***************************************************************************)
C20_EqualEventsEqualHashes ==
    (args.op = "lookup" /\ out.pc = "returned" /\ Eq(args.key, args.probe)) =>
        /\ out.probed = out.stored
        /\ out.found

\* rate is not-a-number or lies within [0, 1]
UnitRateOrNaN(rate) == IsNaN(rate) \/ (FLe(F(0), rate) /\ FLe(rate, F(1)))

(***************************************************************************)
(* C21.  For every ground-truth sequence, prediction sequence and          *)
(* positive-label set, and every one-to-one match mapping whose keys are   *)
(* ground-truth events and whose values are distinct events of the         *)
(* prediction sequence (cross-label pairs included), the precision and the *)
(* recall returned by precision_recall_f1 are each not-a-number or within  *)
(* [0, 1], i.e. tp <= pp and tp <= p.                                      *)
(***************************************************************************)
C21_RatesWithinUnitInterval ==
    (args.op = "precision_recall_f1" /\ out.pc = "returned") =>
        /\ out.tp <= out.pp
        /\ out.tp <= out.p
        /\ UnitRateOrNaN(out.precision)
        /\ UnitRateOrNaN(out.recall)

\* the step is a setter call (a repeated identical call leaves every variable as it was)
SetterCalled == setter' # setter

(***************************************************************************)
(* C22.  A successful set_min_duration on a label changes only that        *)
(* label's min_duration, and a successful set_max_duration only that       *)
(* label's max_duration: the other bound of that label and both bounds of  *)
(* every other label are left unchanged, and no getter or derived property *)
(* of an event (here: reading is_outlier) changes any bound.               *)
(***************************************************************************)
C22_SetterChangesOneBound ==
    [][IF SetterCalled
       THEN /\ \A cls \in ConfigLabels \ {setter'.label} :
                   EVENT_MAPPING'[cls] = EVENT_MAPPING[cls]
            /\ setter'.op = "set_min_duration" =>
                   /\ EVENT_MAPPING'[setter'.label].max_duration
                          = EVENT_MAPPING[setter'.label].max_duration
                   /\ setter'.raised = "none" =>
                          EVENT_MAPPING'[setter'.label].min_duration = setter'.value
            /\ setter'.op = "set_max_duration" =>
                   /\ EVENT_MAPPING'[setter'.label].min_duration
                          = EVENT_MAPPING[setter'.label].min_duration
                   /\ setter'.raised = "none" =>
                          EVENT_MAPPING'[setter'.label].max_duration = setter'.value
       ELSE EVENT_MAPPING' = EVENT_MAPPING]_vars

\* C22: set_min_duration has raised the lower bound of the fixations; their upper
\* bound is as before, the bounds of the saccades differ from both, and an event of
\* the label has been read since
C22_Witness ==
    /\ setter.op = "set_min_duration" /\ setter.raised = "none"
    /\ setter.label = "FIXATION"
    /\ EVENT_MAPPING["FIXATION"].min_duration = setter.value
    /\ setter.value # setter.before.min_duration
    /\ EVENT_MAPPING["FIXATION"].max_duration = setter.before.max_duration
    /\ EVENT_MAPPING["SACCADE"].min_duration # setter.value
    /\ args.op = "is_outlier" /\ args.self.label = "FIXATION"
    /\ out.pc = "returned" /\ out.seen = EVENT_MAPPING["FIXATION"]

====
